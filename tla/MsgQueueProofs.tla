--------------------------- MODULE MsgQueueProofs ---------------------------
(***************************************************************************)
(* Theorems about MsgQueue, for any number of writers and readers, IDs,    *)
(* sizes of messages and of the ring, and their proofs.                    *)
(*                                                                         *)
(* A scan leaves some records of the ring and joins others: Derived says   *)
(* what that keeps, and all theorems go by it.  What the ring holds is     *)
(* counted, not recursed over: Nth of the model and Counts below.          *)
(***************************************************************************)
EXTENDS MsgQueue, FiniteSetTheorems, WellFoundedInduction, TLAPS

(***************************************************************************)
(* Counting the members of a set of places                                 *)
(***************************************************************************)

\* A set of natural numbers that is not empty has a least one.
LEMMA LeastOf ==
  ASSUME NEW S \in SUBSET Nat, S # {}
  PROVE  \E x \in S : \A y \in S : x <= y
<1> DEFINE R == {ss \in Nat \X Nat : ss[1] < ss[2]}
<1>1. \E x \in S : \A y \in S : ~(<<y, x>> \in R)
  <2>1. IsWellFoundedOn(R, Nat)
    BY NatLessThanWellFounded DEF OpToRel
  <2> HIDE DEF R
  <2> QED BY <2>1, WFMin
<1>2. ASSUME NEW x \in Nat, NEW y \in Nat, y < x
      PROVE  <<y, x>> \in R
  <2>1. <<y, x>> \in Nat \X Nat /\ <<y, x>>[1] < <<y, x>>[2]
    BY <1>2
  <2> QED BY <2>1
<1>3. PICK x \in S : \A y \in S : ~(<<y, x>> \in R)
  BY <1>1
<1> HIDE DEF R
<1>4. ASSUME NEW y \in S PROVE x <= y
  <2>1. x \in Nat /\ y \in Nat /\ (y < x => <<y, x>> \in R)
    BY <1>2
  <2> QED BY <1>3, <2>1
<1> QED BY <1>3, <1>4

\* How many of K are not greater than x.
UpTo(K, x) == Cardinality(K \cap 1..x)

\* UpTo grows by one at the members of K, and nowhere else.
LEMMA UpToIs ==
  ASSUME NEW m \in Nat, NEW K \in SUBSET (1..m)
  PROVE  /\ UpTo(K, 0) = 0 /\ UpTo(K, m) = Cardinality(K) /\ Cardinality(K) \in Nat
         /\ \A x \in 0..m : UpTo(K, x) \in Nat
         /\ \A x \in 0..m : x # 0 => UpTo(K, x) = UpTo(K, x - 1) + (IF x \in K THEN 1 ELSE 0)
         /\ \A x \in 0..m, y \in K : x < y => UpTo(K, x) < UpTo(K, y)
<1>1. \A x \in 0..m : IsFiniteSet(K \cap 1..x)
  <2>1. ASSUME NEW x \in 0..m PROVE IsFiniteSet(K \cap 1..x)
    <3>1. IsFiniteSet(1..x)
      BY FS_Interval
    <3>2. K \cap 1..x \in SUBSET (1..x)
      OBVIOUS
    <3> QED BY <3>1, <3>2, FS_Subset
  <2> QED BY <2>1
<1>2. K \cap 1..0 = {} /\ K \cap 1..m = K
  <2>1. 1..0 = {}
    OBVIOUS
  <2> QED BY <2>1
<1>3. \A x \in 0..m : UpTo(K, x) \in Nat
  BY <1>1, FS_CardinalityType DEF UpTo
<1>4. UpTo(K, 0) = 0
  BY <1>2, FS_EmptySet DEF UpTo
<1>5. UpTo(K, m) = Cardinality(K) /\ Cardinality(K) \in Nat
  <2>1. UpTo(K, m) = Cardinality(K)
    BY <1>2 DEF UpTo
  <2> QED BY <1>3, <2>1
<1>6. ASSUME NEW x \in 0..m, x # 0
      PROVE  UpTo(K, x) = UpTo(K, x - 1) + (IF x \in K THEN 1 ELSE 0)
  <2>1. x - 1 \in 0..m /\ x \notin 1..(x - 1)
    BY <1>6
  <2>2. CASE x \in K
    <3>1. K \cap 1..x = (K \cap 1..(x - 1)) \cup {x}
      BY <2>1, <2>2, <1>6
    <3>2. Cardinality(K \cap 1..x) = Cardinality(K \cap 1..(x - 1)) + 1
      BY <1>1, <2>1, <3>1, FS_AddElement
    <3> QED BY <2>2, <3>2 DEF UpTo
  <2>3. CASE x \notin K
    <3>1. K \cap 1..x = K \cap 1..(x - 1)
      BY <2>1, <2>3, <1>6
    <3>2. UpTo(K, x - 1) \in Nat
      BY <1>3, <2>1
    <3>3. UpTo(K, x) = UpTo(K, x - 1)
      BY <3>1 DEF UpTo
    <3> QED BY <2>3, <3>2, <3>3
  <2> QED BY <2>2, <2>3
<1>7. ASSUME NEW x \in 0..m, NEW y \in K, x < y
      PROVE  UpTo(K, x) < UpTo(K, y)
  <2> DEFINE a == K \cap 1..x
             b == K \cap 1..y
  <2>1. y \in 0..m
    OBVIOUS
  <2>2. a \in SUBSET b /\ y \in b /\ y \notin a
    BY <1>7
  <2>3. IsFiniteSet(b) /\ Cardinality(a) \in Nat /\ Cardinality(b) \in Nat
    BY <1>1, <1>3, <2>1 DEF UpTo
  <2> HIDE DEF a, b
  <2>4. Cardinality(a) < Cardinality(b)
    <3>1. a # b
      BY <2>2
    <3>2. Cardinality(a) <= Cardinality(b) /\ (Cardinality(b) = Cardinality(a) => b = a)
      BY <2>2, <2>3, FS_Subset
    <3> QED BY <2>3, <3>1, <3>2
  <2> QED BY <2>4 DEF UpTo, a, b
<1> QED BY <1>3, <1>4, <1>5, <1>6, <1>7

\* Nth counts the members of a finite set of places, in their order.
LEMMA NthIs ==
  ASSUME NEW m \in Nat, NEW K \in SUBSET (1..m)
  PROVE  /\ Cardinality(K) \in Nat
         /\ \A n \in 1..Cardinality(K) : Nth(K, n) \in K
         /\ \A n, p \in 1..Cardinality(K) : n < p => Nth(K, n) < Nth(K, p)
         /\ \A k \in K : \E n \in 1..Cardinality(K) : Nth(K, n) = k
<1> DEFINE c(x) == UpTo(K, x)
<1>1. /\ c(0) = 0 /\ c(m) = Cardinality(K) /\ Cardinality(K) \in Nat
      /\ \A x \in 0..m : c(x) \in Nat
      /\ \A x \in 0..m : x # 0 => c(x) = c(x - 1) + (IF x \in K THEN 1 ELSE 0)
      /\ \A x \in 0..m, y \in K : x < y => c(x) < c(y)
  BY UpToIs
<1>2. \A n : Nth(K, n) = CHOOSE k \in K : c(k) = n
  BY DEF Nth, UpTo
<1> HIDE DEF c
<1>3. ASSUME NEW n \in 1..Cardinality(K)
      PROVE  Nth(K, n) \in K /\ c(Nth(K, n)) = n
  <2>1. PICK x \in 0..m : n <= c(x) /\ \A y \in 0..m : n <= c(y) => x <= y
    <3> DEFINE S == {y \in 0..m : n <= c(y)}
    <3>1. m \in S /\ S \in SUBSET Nat
      BY <1>1
    <3> QED BY <3>1, LeastOf
  <2>2. x # 0
    BY <1>1, <2>1
  <2>3. x - 1 \in 0..m /\ ~(n <= c(x - 1)) /\ c(x - 1) \in Nat
    BY <1>1, <2>1, <2>2
  <2>4. c(x) = c(x - 1) + (IF x \in K THEN 1 ELSE 0)
    BY <1>1, <2>2
  <2>5. x \in K /\ c(x) = n
    BY <2>1, <2>3, <2>4
  <2> QED BY <1>2, <2>5
<1>4. ASSUME NEW n \in 1..Cardinality(K), NEW p \in 1..Cardinality(K), n < p
      PROVE  Nth(K, n) < Nth(K, p)
  <2>1. Nth(K, n) \in K /\ Nth(K, p) \in K /\ c(Nth(K, n)) = n /\ c(Nth(K, p)) = p
    BY <1>3
  <2>2. Nth(K, n) \in 0..m /\ Nth(K, p) \in 0..m /\ Nth(K, n) # Nth(K, p)
    <3>1. n # p
      BY <1>4
    <3>2. K \subseteq 0..m
      OBVIOUS
    <3> QED BY <2>1, <3>1, <3>2
  <2>3. Nth(K, p) < Nth(K, n) => p < n
    BY <1>1, <2>1, <2>2
  <2> QED BY <1>4, <2>2, <2>3
<1>5. ASSUME NEW k \in K
      PROVE  \E n \in 1..Cardinality(K) : Nth(K, n) = k
  <2>1. k \in 0..m /\ c(0) < c(k) /\ c(k) \in Nat
    BY <1>1
  <2>2. c(k) <= c(m)
    <3>1. ASSUME NEW x \in 1..m, c(x) < c(x - 1) PROVE FALSE
      BY <1>1, <3>1
    <3>2. CASE k = m
      BY <2>1, <3>2
    <3>3. CASE k # m
      <4> DEFINE S == {y \in 0..m : y >= k /\ c(y) < c(k)}
      <4>1. SUFFICES ASSUME S # {} PROVE FALSE
        BY <1>1, <2>1
      <4>0. S \in SUBSET Nat
        OBVIOUS
      <4>2. PICK y \in S : \A z \in S : y <= z
        <5> HIDE DEF S
        <5> QED BY <4>0, <4>1, LeastOf
      <4>3. y \in 0..m /\ y # k /\ y > k /\ c(y) < c(k) /\ y - 1 \in 0..m
        BY <2>1, <4>2
      <4>4. y - 1 \notin S /\ ~(c(y - 1) < c(k))
        BY <4>2, <4>3
      <4> QED BY <1>1, <2>1, <4>3, <4>4
    <3> QED BY <3>2, <3>3
  <2>3. c(k) \in 1..Cardinality(K)
    BY <1>1, <2>1, <2>2
  <2>4. Nth(K, c(k)) \in K /\ c(Nth(K, c(k))) = c(k)
    BY <1>3, <2>3
  <2>5. Nth(K, c(k)) = k
    <3> DEFINE h == Nth(K, c(k))
    <3>1. h \in K /\ c(h) = c(k)
      BY <2>4
    <3> HIDE DEF h
    <3>2. h \in 0..m /\ c(h) \in Nat
      BY <1>1, <3>1
    <3>3. ~(h < k)
      BY <1>1, <2>1, <3>1, <3>2
    <3>4. ~(k < h)
      BY <1>1, <2>1, <3>1, <3>2
    <3>5. h = k
      BY <2>1, <3>2, <3>3, <3>4
    <3> QED BY <3>5 DEF h
  <2> QED BY <2>3, <2>5
<1> QED BY <1>1, <1>3, <1>4, <1>5

\* e counts the members of K up to N, in their order.
Counts(e, N, K) ==
  /\ \A n \in 1..N : e[n] \in K
  /\ \A n, p \in 1..N : n < p => e[n] < e[p]
  /\ \A k \in K : \E n \in 1..N : e[n] = k

\* Who counts the members of K in their order counts as Nth does.
LEMMA NthOnly ==
  ASSUME NEW m \in Nat, NEW K \in SUBSET (1..m), NEW N \in Nat, NEW e, Counts(e, N, K)
  PROVE  N = Cardinality(K) /\ \A n \in 1..N : e[n] = Nth(K, n)
<1> USE DEF Counts
<1> DEFINE f(n) == Nth(K, n)
           C == Cardinality(K)
<1>1. /\ C \in Nat
      /\ \A n \in 1..C : f(n) \in K
      /\ \A n, p \in 1..C : n < p => f(n) < f(p)
      /\ \A k \in K : \E n \in 1..C : f(n) = k
  BY NthIs
<1>2. \A k \in K : k \in Int
  OBVIOUS
<1> HIDE DEF f, C
<1>3. ASSUME NEW n \in Nat \ {0}, n <= N, n <= C, e[n] # f(n) PROVE FALSE
  <2> DEFINE S == {p \in Nat \ {0} : p <= N /\ p <= C /\ e[p] # f(p)}
  <2>1. n \in S /\ S \in SUBSET Nat
    BY <1>3
  <2>2. PICK p \in S : \A q \in S : p <= q
    BY <2>1, LeastOf
  <2>3. p \in 1..N /\ p \in 1..C /\ e[p] # f(p) /\ \A q \in 1..(p - 1) : e[q] = f(q)
    BY <1>1, <2>2
  <2>4. e[p] \in K /\ f(p) \in K
    BY <1>1, <2>3
  <2>5. PICK i \in 1..C : f(i) = e[p]
    BY <1>1, <2>4
  <2>6. PICK j \in 1..N : e[j] = f(p)
    BY <2>4
  <2>7. i > p
    <3>1. i < p => e[i] = f(i) /\ i \in 1..N
      BY <2>3, <2>5
    <3>2. i < p => e[i] < e[p]
      BY <2>3, <3>1
    <3>3. e[p] \in Int
      BY <1>2, <2>4
    <3> QED BY <2>3, <2>5, <3>1, <3>2, <3>3
  <2>8. j > p
    <3>1. j < p => e[j] = f(j) /\ j \in 1..C
      BY <1>1, <2>3, <2>6
    <3>2. j < p => f(j) < f(p)
      BY <1>1, <2>3, <3>1
    <3>3. f(p) \in Int
      BY <1>2, <2>4
    <3> QED BY <2>3, <2>6, <3>1, <3>2, <3>3
  <2>9. f(p) < f(i) /\ e[p] < e[j]
    BY <1>1, <2>3, <2>7, <2>8
  <2>10. f(p) \in Int /\ e[p] \in Int /\ f(p) < e[p] /\ e[p] < f(p)
    BY <1>2, <2>4, <2>5, <2>6, <2>9
  <2> QED BY <2>10
<1>4. N = C
  <2>1. CASE N < C
    <3>1. N + 1 \in 1..C /\ f(N + 1) \in K
      BY <1>1, <2>1
    <3>2. PICK j \in 1..N : e[j] = f(N + 1)
      BY <3>1
    <3>3. j \in 1..C /\ e[j] = f(j) /\ j < N + 1
      BY <1>1, <1>3, <2>1
    <3>4. f(j) < f(N + 1)
      BY <1>1, <3>1, <3>3
    <3>5. e[j] \in Int
      BY <1>2, <3>2
    <3> QED BY <3>2, <3>3, <3>4, <3>5
  <2>2. CASE C < N
    <3>1. C + 1 \in 1..N /\ e[C + 1] \in K
      BY <1>1, <2>2
    <3>2. PICK j \in 1..C : f(j) = e[C + 1]
      BY <1>1, <3>1
    <3>3. j \in 1..N /\ e[j] = f(j) /\ j < C + 1
      BY <1>1, <1>3, <2>2
    <3>4. e[j] < e[C + 1]
      BY <3>1, <3>3
    <3>5. f(j) \in Int
      BY <1>1, <1>2, <3>2
    <3> QED BY <3>2, <3>3, <3>4, <3>5
  <2> QED BY <1>1, <2>1, <2>2
<1>5. \A n \in 1..N : e[n] = f(n)
  BY <1>1, <1>3, <1>4
<1> QED BY <1>4, <1>5 DEF f, C

(***************************************************************************)
(* The ring: what a scan leaves of it                                      *)
(***************************************************************************)

\* Each record of s leads to the next, the last one to t.
Chained(s, t) ==
  \A i \in 1..Len(s) : /\ Leads(s[i]) = IF i = Len(s) THEN t ELSE s[i + 1].pos
                       /\ InRing(s[i]) /\ s[i].pos # Size

\* x and y hold the same, unread or not, at the same place; the lengths may differ when it has been
\* read.
Alike(x, y) == /\ x.pos = y.pos /\ x.msg = y.msg /\ x.read = y.read /\ x.old = y.old
               /\ ~y.read => x.len = y.len

\* w is s without some of those that have been read; o has the places its records come from.
DerivedBy(s, w, o) ==
  /\ \A n \in 1..Len(w) : o[n] \in 1..Len(s) /\ Alike(w[n], s[o[n]])
  /\ \A n, p \in 1..Len(w) : n < p => o[n] < o[p]
  /\ \A i \in 1..Len(s) : ~s[i].read => \E n \in 1..Len(w) : o[n] = i
Derived(s, w) == \E o : DerivedBy(s, w, o)

\* Min takes the least of a set.
LEMMA MinIs ==
  ASSUME NEW S \in SUBSET Nat, S # {}
  PROVE  Min(S) \in S /\ \A y \in S : Min(S) <= y
BY LeastOf DEF Min

\* A length masked is a length, and is itself when it was short enough.
LEMMA MaskIs ==
  ASSUME NEW x \in Nat
  PROVE  x % Lengths \in 0..(Lengths - 1) /\ (x <= Size => x % Lengths = x)
BY QueueAssumption

\* What is added to the length of a run is a natural number, none unless the run marks the end.
LEMMA BeyondIs ==
  ASSUME NEW s \in Seq(Records), NEW i \in 1..Len(s), NEW j \in 1..Len(s)
  PROVE  Beyond(s, i, j) \in Nat /\ (~(s[i].read /\ s[j].end) => Beyond(s, i, j) = 0)
<1> DEFINE T(x) == ~x.read
           unread == SelectInSubSeq(s, j + 1, Len(s), T)
           last == IF unread = 0 THEN Len(s) ELSE unread - 1
<1>1. Len(s) \in Nat
  OBVIOUS
<1>2. last \in 1..Len(s)
  <2> DEFINE I == {x \in (j + 1)..Len(s) : T(s[x])}
  <2>1. unread = IF I # {} THEN Min(I) ELSE 0
    BY DEF SelectInSubSeq
  <2>2. I \in SUBSET Nat
    BY <1>1
  <2>3. I # {} => Min(I) \in I
    <3> HIDE DEF I
    <3> QED BY <2>2, MinIs
  <2>4. I # {} => Min(I) \in (j + 1)..Len(s)
    BY <2>3
  <2> HIDE DEF I
  <2> QED BY <1>1, <2>1, <2>4
<1>3. Beyond(s, i, j) = IF s[i].read /\ s[j].end /\ last # j THEN s[last].pos + s[last].len ELSE 0
  BY DEF Beyond
<1> HIDE DEF last, unread
<1>4. s[last] \in Records
  BY <1>2
<1>5. s[last].pos \in Nat /\ s[last].len \in Nat
  BY <1>4, QueueAssumption DEF Records
<1> QED BY <1>3, <1>5

\* A run of records in one: where it ends is its length, unless it marks the end of the ring.
LEMMA JoinIs ==
  ASSUME NEW s \in Seq(Records), NEW i \in 1..Len(s), NEW j \in 1..Len(s),
         s[i].pos <= s[j].pos + s[j].len,
         (s[i].read /\ s[j].end) \/ s[j].pos + s[j].len <= Size
  PROVE  /\ Join(s, i, j) \in Records
         /\ Join(s, i, j).pos = s[i].pos /\ Join(s, i, j).msg = s[i].msg
         /\ Join(s, i, j).read = s[i].read /\ Join(s, i, j).old = s[i].old
         /\ Join(s, i, j).end = s[j].end
         /\ ~(s[i].read /\ s[j].end) => Join(s, i, j).len = s[j].pos + s[j].len - s[i].pos
<1> DEFINE d == s[j].pos + s[j].len - s[i].pos
           l == (d + Beyond(s, i, j)) % Lengths
<1>1. s[i] \in Records /\ s[j] \in Records
  OBVIOUS
<1>2. s[i].pos \in Nat /\ s[j].pos \in Nat /\ s[j].len \in Nat
  BY <1>1, QueueAssumption DEF Records
<1>3. d \in Nat /\ (s[j].pos + s[j].len <= Size => d <= Size)
  BY <1>2, QueueAssumption
<1>4. Beyond(s, i, j) \in Nat /\ (~(s[i].read /\ s[j].end) => Beyond(s, i, j) = 0)
  BY BeyondIs
<1>5. Join(s, i, j) = [s[i] EXCEPT !.len = l, !.end = s[j].end]
  BY DEF Join
<1> HIDE DEF d
<1>6. l \in 0..(Lengths - 1)
  <2>1. d + Beyond(s, i, j) \in Nat
    BY <1>3, <1>4
  <2> QED BY <2>1, MaskIs
<1>7. ~(s[i].read /\ s[j].end) => l = d
  <2>1. ASSUME ~(s[i].read /\ s[j].end) PROVE d + Beyond(s, i, j) = d /\ d <= Size
    BY <1>3, <1>4, <2>1
  <2> QED BY <1>3, <2>1, MaskIs
<1> HIDE DEF l
<1>8. /\ Join(s, i, j) \in Records
      /\ Join(s, i, j).pos = s[i].pos /\ Join(s, i, j).msg = s[i].msg
      /\ Join(s, i, j).read = s[i].read /\ Join(s, i, j).old = s[i].old
      /\ Join(s, i, j).end = s[j].end /\ Join(s, i, j).len = l
  BY <1>1, <1>5, <1>6 DEF Records
<1> QED BY <1>7, <1>8 DEF d

\* The scan takes those that have been read off the bottom and joins others: what is left is chained
\* as before, and has all that is unread.
LEMMA PassedIs ==
  ASSUME NEW s \in Seq(Records), NEW t, Chained(s, t)
  PROVE  /\ Passed(s) \in Seq(Records)
         /\ Chained(Passed(s), t)
         /\ Derived(s, Passed(s))
<1> DEFINE K == Kept(s)
           C == Cardinality(K)
           k(n) == Nth(K, n)
           last(n) == IF n = C THEN Len(s) ELSE k(n + 1) - 1
           w == Passed(s)
<1>1. Len(s) \in Nat /\ K \in SUBSET (1..Len(s))
  BY DEF Kept
<1>2. /\ C \in Nat
      /\ \A n \in 1..C : k(n) \in K
      /\ \A n, p \in 1..C : n < p => k(n) < k(p)
      /\ \A x \in K : \E n \in 1..C : k(n) = x
  BY <1>1, NthIs
<1>16. \A n \in 1..C : k(n) \in Int /\ k(n) \in 1..Len(s)
  BY <1>1, <1>2
<1>3. \A i \in 1..Len(s) : i \in K <=> ~Leaves(s, i) /\ ~Joins(s, i)
  BY DEF Kept
<1>4. w = [n \in 1..C |-> Join(s, k(n), last(n))]
  BY DEF Passed
<1>5. \A i \in 1..Len(s) : /\ s[i].pos \in Nat /\ s[i].len \in Nat /\ s[i] \in Records
                           /\ s[i].read \in BOOLEAN /\ s[i].end \in BOOLEAN
  <2>1. ASSUME NEW i \in 1..Len(s) PROVE s[i] \in Records
    OBVIOUS
  <2> QED BY <2>1, QueueAssumption DEF Records
<1> HIDE DEF K, C, k, w
<1>6. ASSUME NEW n \in 1..C
      PROVE  /\ k(n) \in 1..Len(s) /\ last(n) \in 1..Len(s) /\ k(n) <= last(n)
             /\ \A i \in 1..Len(s) : k(n) < i /\ i <= last(n) => i \notin K
  <2>1. k(n) \in 1..Len(s)
    BY <1>1, <1>2
  <2>2. CASE n = C
    <3>1. ASSUME NEW i \in K, k(n) < i PROVE FALSE
      <4>1. PICK p \in 1..C : k(p) = i
        BY <1>2
      <4>2. p = n \/ p < n
        BY <1>2, <2>2
      <4>3. p < n => k(p) < k(n)
        BY <1>2
      <4>4. k(p) \in Int /\ k(n) \in Int
        BY <1>16
      <4> QED BY <3>1, <4>1, <4>2, <4>3, <4>4
    <3> QED BY <1>1, <2>1, <2>2, <3>1
  <2>3. CASE n # C
    <3>1. n + 1 \in 1..C /\ n < n + 1
      BY <1>2, <2>3
    <3>2. k(n + 1) \in 1..Len(s) /\ k(n) < k(n + 1)
      BY <1>1, <1>2, <3>1
    <3>3. ASSUME NEW i \in K, k(n) < i, i < k(n + 1) PROVE FALSE
      <4>1. PICK p \in 1..C : k(p) = i
        BY <1>2
      <4>2. p = n \/ p < n \/ p = n + 1 \/ n + 1 < p
        BY <1>2, <3>1
      <4>3. (p < n => k(p) < k(n)) /\ (n + 1 < p => k(n + 1) < k(p))
        BY <1>2, <3>1
      <4>4. k(p) \in Int /\ k(n) \in Int /\ k(n + 1) \in Int
        BY <1>16, <3>1
      <4> QED BY <3>3, <4>1, <4>2, <4>3, <4>4
    <3>4. last(n) = k(n + 1) - 1
      BY <2>3
    <3>5. last(n) \in 1..Len(s) /\ k(n) <= last(n)
      BY <1>1, <2>1, <3>2, <3>4
    <3>6. \A i \in 1..Len(s) : i <= last(n) => i < k(n + 1)
      BY <3>2, <3>4
    <3> QED BY <2>1, <3>3, <3>5, <3>6
  <2> QED BY <2>2, <2>3
<1>7. ASSUME NEW n \in 1..C, NEW i \in 1..Len(s), k(n) < i, i <= last(n)
      PROVE  Joins(s, i)
  <2>1. i \notin K /\ k(n) \in K /\ k(n) \in 1..Len(s)
    BY <1>2, <1>6, <1>7
  <2>2. ~Leaves(s, k(n)) /\ (Leaves(s, i) \/ Joins(s, i))
    BY <1>3, <2>1
  <2>3. Leaves(s, i) => Leaves(s, k(n))
    BY <1>7, <2>1 DEF Leaves
  <2> QED BY <2>2, <2>3
<1>8. ASSUME NEW n \in 1..C, NEW i \in 1..Len(s), k(n) <= i, i < last(n)
      PROVE  ~s[i].end /\ s[i].read /\ i + 1 \in 1..Len(s)
  <2>1. i + 1 \in 1..Len(s) /\ k(n) < i + 1 /\ i + 1 <= last(n)
    BY <1>6, <1>8
  <2>2. Joins(s, i + 1)
    BY <1>7, <2>1
  <2>3. s[i + 1].read /\ s[i].read /\ ~AfterEnd(s, i + 1)
    BY <2>2 DEF Joins
  <2>4. i \in 1..(i + 1 - 1) /\ \A x \in i..(i + 1) : x = i \/ x = i + 1
    OBVIOUS
  <2> QED BY <2>1, <2>3, <2>4 DEF AfterEnd
<1>9. ASSUME NEW n \in 1..C, NEW i \in 1..Len(s), k(n) <= i, i <= last(n)
      PROVE  s[k(n)].pos <= s[i].pos
  <2> DEFINE S == {x \in 1..Len(s) : k(n) <= x /\ x <= last(n) /\ s[x].pos < s[k(n)].pos}
  <2>1. SUFFICES ASSUME S # {} PROVE FALSE
    BY <1>5, <1>6, <1>9
  <2>2. S \in SUBSET Nat
    OBVIOUS
  <2>3. PICK x \in S : \A y \in S : x <= y
    <3> HIDE DEF S
    <3> QED BY <2>1, <2>2, LeastOf
  <2>4. x # k(n) /\ x \in 1..Len(s) /\ k(n) \in 1..Len(s)
    BY <1>5, <1>6, <2>3
  <2>5. x - 1 \in 1..Len(s) /\ k(n) <= x - 1 /\ x - 1 < last(n) /\ x - 1 \notin S
    BY <1>6, <2>3, <2>4
  <2>6. ~s[x - 1].end
    BY <1>8, <2>5
  <2>7. s[x - 1].pos + s[x - 1].len = s[x].pos
    <3>1. (x - 1) + 1 = x /\ x - 1 # Len(s)
      BY <1>1, <2>4
    <3>2. Leads(s[x - 1]) = s[x].pos
      BY <2>5, <3>1 DEF Chained
    <3> QED BY <2>6, <3>2 DEF Leads
  <2> QED BY <1>5, <1>6, <2>3, <2>4, <2>5, <2>7, SMTT(30)
<1>14. ASSUME NEW n \in 1..C
       PROVE  s[last(n)].read => s[k(n)].read
  <2>1. k(n) \in 1..Len(s) /\ last(n) \in 1..Len(s) /\ k(n) <= last(n)
    BY <1>6
  <2>2. k(n) # last(n) => k(n) < last(n)
    BY <1>1, <2>1
  <2>3. k(n) < last(n) => s[k(n)].read
    BY <1>8, <2>1
  <2> QED BY <2>2, <2>3
<1>10. ASSUME NEW n \in 1..C
       PROVE  /\ w[n] \in Records
              /\ w[n].pos = s[k(n)].pos /\ w[n].msg = s[k(n)].msg
              /\ w[n].read = s[k(n)].read /\ w[n].old = s[k(n)].old
              /\ w[n].end = s[last(n)].end
              /\ ~(s[k(n)].read /\ s[last(n)].end) =>
                   /\ w[n].len = s[last(n)].pos + s[last(n)].len - s[k(n)].pos
                   /\ s[last(n)].pos + s[last(n)].len <= Size
  <2>1. /\ k(n) \in 1..Len(s) /\ last(n) \in 1..Len(s) /\ k(n) <= last(n)
        /\ s[k(n)].pos <= s[last(n)].pos
    BY <1>6, <1>9
  <2>5. s[last(n)].read => s[k(n)].read
    BY <1>14
  <2>4. w[n] = Join(s, k(n), last(n))
    BY <1>4
  <2> HIDE DEF last
  <2>2. (s[k(n)].read /\ s[last(n)].end) \/ s[last(n)].pos + s[last(n)].len <= Size
    BY <2>1, <2>5 DEF Chained, InRing
  <2>3. s[k(n)].pos <= s[last(n)].pos + s[last(n)].len
    BY <1>5, <2>1
  <2> QED BY <2>1, <2>2, <2>3, <2>4, JoinIs
<1>11. w \in Seq(Records) /\ Len(w) = C
  <2>1. w = [n \in 1..C |-> w[n]]
    BY <1>4
  <2> QED BY <1>2, <1>10, <2>1
<1>12. Chained(w, t)
  <2> SUFFICES ASSUME NEW n \in 1..C
               PROVE  /\ Leads(w[n]) = IF n = C THEN t ELSE w[n + 1].pos
                      /\ InRing(w[n]) /\ w[n].pos # Size
    BY <1>11 DEF Chained
  <2>1. k(n) \in 1..Len(s) /\ last(n) \in 1..Len(s)
    BY <1>6
  <2>2. /\ Leads(s[last(n)]) = IF last(n) = Len(s) THEN t ELSE s[last(n) + 1].pos
        /\ s[k(n)].pos # Size
    BY <2>1 DEF Chained
  <2>3. /\ s[k(n)].pos \in Nat /\ s[last(n)].pos \in Nat /\ s[last(n)].len \in Nat
    BY <1>5, <2>1
  <2>4. ~(s[k(n)].read /\ s[last(n)].end) =>
          /\ w[n].pos + w[n].len = s[last(n)].pos + s[last(n)].len
          /\ s[last(n)].pos + s[last(n)].len <= Size
    <3>1. /\ w[n].pos = s[k(n)].pos
          /\ ~(s[k(n)].read /\ s[last(n)].end) =>
               /\ w[n].len = s[last(n)].pos + s[last(n)].len - s[k(n)].pos
               /\ s[last(n)].pos + s[last(n)].len <= Size
      BY <1>10
    <3> HIDE DEF last
    <3> QED BY <2>3, <3>1
  <2>5. Leads(w[n]) = Leads(s[last(n)])
    BY <1>10, <2>4 DEF Leads
  <2>8. InRing(w[n])
    BY <1>10, <2>4 DEF InRing
  <2>6. CASE n = C
    BY <1>10, <2>2, <2>5, <2>6, <2>8
  <2>7. CASE n # C
    <3>1. n + 1 \in 1..C /\ last(n) = k(n + 1) - 1
      BY <1>2, <2>7
    <3>2. k(n + 1) \in 1..Len(s) /\ w[n + 1].pos = s[k(n + 1)].pos
      BY <1>6, <1>10, <3>1
    <3>3. last(n) # Len(s) /\ last(n) + 1 = k(n + 1)
      BY <1>1, <3>1, <3>2
    <3> QED BY <1>10, <2>2, <2>5, <2>7, <2>8, <3>2, <3>3
  <2> QED BY <2>6, <2>7
<1>13. Derived(s, w)
  <2> DEFINE o == [n \in 1..C |-> k(n)]
  <2>1. ASSUME NEW n \in 1..Len(w)
        PROVE  o[n] \in 1..Len(s) /\ Alike(w[n], s[o[n]])
    <3>1. n \in 1..C /\ o[n] = k(n) /\ k(n) \in 1..Len(s) /\ last(n) \in 1..Len(s) /\ k(n) <= last(n)
      BY <1>6, <1>11
    <3>2. ~s[k(n)].read => last(n) = k(n)
      BY <1>8, <3>1
    <3>3. ~s[k(n)].read => w[n].len = s[k(n)].len
      <4>1. ASSUME ~s[k(n)].read PROVE w[n].len = s[k(n)].pos + s[k(n)].len - s[k(n)].pos
        BY <1>10, <3>1, <3>2, <4>1
      <4> QED BY <1>5, <3>1, <4>1
    <3> QED BY <1>10, <3>1, <3>3 DEF Alike
  <2>2. \A n, p \in 1..Len(w) : n < p => o[n] < o[p]
    BY <1>2, <1>11
  <2>3. ASSUME NEW i \in 1..Len(s), ~s[i].read
        PROVE  \E n \in 1..Len(w) : o[n] = i
    <3>1. ~Leaves(s, i) /\ ~Joins(s, i)
      BY <2>3 DEF Leaves, Joins
    <3>2. i \in K
      BY <1>3, <3>1
    <3> QED BY <1>2, <1>11, <3>2
  <2> HIDE DEF o
  <2>4. DerivedBy(s, w, o)
    BY <2>1, <2>2, <2>3 DEF DerivedBy
  <2> QED BY <2>4 DEF Derived
<1> QED BY <1>11, <1>12, <1>13 DEF w

\* The scan as far as its n-th record leaves the ring chained.
LEMMA ScannedIs ==
  ASSUME NEW s \in Seq(Records), NEW t, Chained(s, t), NEW n \in 0..Len(s)
  PROVE  /\ ScannedTo(s, n) \in Seq(Records)
         /\ Chained(ScannedTo(s, n), t)
         /\ Derived(s, ScannedTo(s, n))
<1> DEFINE a == SubSeq(s, 1, n)
           b == SubSeq(s, n + 1, Len(s))
           p == Passed(a)
           w == p \o b
           v == IF n = Len(s) THEN t ELSE s[n + 1].pos
<1>1. /\ a \in Seq(Records) /\ Len(a) = n /\ \A i \in 1..n : a[i] = s[i]
      /\ b \in Seq(Records) /\ Len(b) = Len(s) - n /\ \A i \in 1..(Len(s) - n) : b[i] = s[n + i]
      /\ Len(s) \in Nat
  OBVIOUS
<1>2. ScannedTo(s, n) = w
  BY DEF ScannedTo
<1> HIDE DEF a, b
<1>3. Chained(a, v)
  <2> SUFFICES ASSUME NEW i \in 1..n
               PROVE  /\ Leads(a[i]) = IF i = n THEN v ELSE a[i + 1].pos
                      /\ InRing(a[i]) /\ a[i].pos # Size
    BY <1>1 DEF Chained
  <2>1. i \in 1..Len(s) /\ a[i] = s[i] /\ (i # n => a[i + 1] = s[i + 1])
    BY <1>1
  <2>2. /\ Leads(s[i]) = IF i = Len(s) THEN t ELSE s[i + 1].pos
        /\ InRing(s[i]) /\ s[i].pos # Size
    BY <2>1 DEF Chained
  <2>3. i = Len(s) => i = n
    BY <1>1
  <2> QED BY <2>1, <2>2, <2>3
<1>4. p \in Seq(Records) /\ Chained(p, v) /\ Derived(a, p)
  BY <1>1, <1>3, PassedIs
<1> HIDE DEF p
<1>5. PICK o : DerivedBy(a, p, o)
  BY <1>4 DEF Derived
<1> DEFINE c == Len(p)
<1>6. /\ w \in Seq(Records) /\ Len(w) = c + Len(b) /\ c \in Nat
      /\ \A i \in 1..c : w[i] = p[i]
      /\ \A i \in 1..(c + Len(b)) : i > c => w[i] = b[i - c] /\ i - c \in 1..Len(b)
  <2>1. p \in Seq(Records) /\ b \in Seq(Records)
    BY <1>1, <1>4
  <2>2. w \in Seq(Records) /\ Len(w) = c + Len(b) /\ c \in Nat /\ Len(b) \in Nat
    BY <2>1
  <2>3. \A i \in 1..c : w[i] = p[i]
    BY <2>1
  <2>4. \A i \in 1..(c + Len(b)) : i > c => w[i] = b[i - c] /\ i - c \in 1..Len(b)
    BY <2>1
  <2> QED BY <2>2, <2>3, <2>4
<1> HIDE DEF w, c
<1>7. Chained(w, t)
  <2> SUFFICES ASSUME NEW i \in 1..Len(w)
               PROVE  /\ Leads(w[i]) = IF i = Len(w) THEN t ELSE w[i + 1].pos
                      /\ InRing(w[i]) /\ w[i].pos # Size
    BY DEF Chained
  <2>1. CASE i <= c
    <3>1. i \in 1..c /\ w[i] = p[i] /\ c = Len(p)
      BY <1>6, <2>1 DEF c
    <3>2. /\ Leads(p[i]) = IF i = c THEN v ELSE p[i + 1].pos
          /\ InRing(p[i]) /\ p[i].pos # Size
      BY <1>4, <3>1 DEF Chained
    <3>3. CASE i # c
      <4>1. i + 1 \in 1..c /\ i # Len(w)
        BY <1>1, <1>6, <3>1, <3>3
      <4>2. w[i + 1] = p[i + 1]
        BY <1>6, <4>1
      <4> QED BY <3>1, <3>2, <3>3, <4>1, <4>2
    <3>4. CASE i = c /\ n = Len(s)
      <4>1. i = Len(w) /\ v = t
        BY <1>1, <1>6, <3>4
      <4> QED BY <3>1, <3>2, <3>4, <4>1
    <3>5. CASE i = c /\ n # Len(s)
      <4>1. 1 \in 1..Len(b) /\ i # Len(w) /\ v = s[n + 1].pos
        BY <1>1, <1>6, <3>5
      <4>2. w[i + 1] = b[1] /\ b[1] = s[n + 1]
        <5>1. i + 1 \in 1..(c + Len(b)) /\ i + 1 > c /\ i + 1 - c = 1
          BY <1>1, <1>6, <3>5, <4>1
        <5> QED BY <1>1, <1>6, <4>1, <5>1
      <4> QED BY <3>1, <3>2, <3>5, <4>1, <4>2
    <3> QED BY <3>3, <3>4, <3>5
  <2>2. CASE i > c
    <3> DEFINE j == n + (i - c)
    <3>1. i \in 1..(c + Len(b)) /\ i - c \in 1..Len(b) /\ w[i] = b[i - c] /\ j \in 1..Len(s)
      BY <1>1, <1>6, <2>2
    <3>2. w[i] = s[j]
      BY <1>1, <3>1
    <3>3. i = Len(w) <=> j = Len(s)
      BY <1>1, <1>6
    <3>4. CASE i # Len(w)
      <4>1. i + 1 \in 1..(c + Len(b)) /\ i + 1 > c /\ i + 1 - c \in 1..Len(b) /\ n + (i + 1 - c) = j + 1
        <5> DEFINE d == Len(b)
        <5>1. /\ c \in Nat /\ d \in Nat /\ Len(w) = c + d /\ i \in 1..Len(w) /\ i # Len(w) /\ i > c
              /\ n \in Nat
          BY <1>1, <1>6, <2>2, <3>4
        <5> HIDE DEF d
        <5>2. i + 1 \in 1..(c + d) /\ i + 1 > c /\ i + 1 - c \in 1..d
          BY <5>1
        <5>3. n + (i + 1 - c) = j + 1
          BY <5>1
        <5> QED BY <5>2, <5>3 DEF d
      <4>2. w[i + 1] = b[i + 1 - c]
        <5>1. i + 1 \in 1..(c + Len(b)) /\ i + 1 > c
          BY <4>1
        <5> QED BY <1>6, <5>1, SMTT(30)
      <4>3. b[i + 1 - c] = s[n + (i + 1 - c)]
        BY <1>1, <4>1
      <4>4. w[i + 1] = s[j + 1] /\ j # Len(s)
        BY <3>3, <3>4, <4>1, <4>2, <4>3
      <4> HIDE DEF j
      <4> QED BY <3>1, <3>2, <3>4, <4>4 DEF Chained
    <3>5. CASE i = Len(w)
      <4> HIDE DEF j
      <4> QED BY <3>1, <3>2, <3>3, <3>5 DEF Chained
    <3> QED BY <3>4, <3>5
  <2> QED BY <1>6, <2>1, <2>2
<1>8. Derived(s, w)
  <2> DEFINE q == [i \in 1..Len(w) |-> IF i <= c THEN o[i] ELSE n + (i - c)]
  <2>1. \A i \in 1..c : o[i] \in 1..n /\ Alike(p[i], s[o[i]])
    BY <1>1, <1>5 DEF DerivedBy, c
  <2>2. ASSUME NEW i \in 1..Len(w)
        PROVE  /\ q[i] \in 1..Len(s) /\ Alike(w[i], s[q[i]])
               /\ i <= c => q[i] = o[i] /\ q[i] \in 1..n
               /\ i > c => q[i] = n + (i - c)
    <3>1. CASE i <= c
      BY <1>1, <1>6, <2>1, <3>1
    <3>2. CASE i > c
      <4>1. q[i] = n + (i - c) /\ i - c \in 1..Len(b) /\ w[i] = b[i - c]
        BY <1>6, <3>2
      <4>2. q[i] \in 1..Len(s) /\ w[i] = s[q[i]]
        BY <1>1, <4>1, SMTT(30)
      <4> QED BY <1>6, <3>2, <4>1, <4>2 DEF Alike
    <3> QED BY <1>6, <3>1, <3>2
  <2> HIDE DEF q
  <2>3. ASSUME NEW i \in 1..Len(w), NEW j \in 1..Len(w), i < j
        PROVE  q[i] < q[j]
    <3>1. CASE j <= c
      <4>1. i \in 1..c /\ j \in 1..c
        BY <1>6, <2>3, <3>1
      <4>2. o[i] < o[j]
        BY <1>5, <2>3, <4>1 DEF DerivedBy, c
      <4> QED BY <2>2, <4>1, <4>2
    <3>2. CASE i <= c /\ j > c
      BY <1>6, <2>2, <3>2
    <3>3. CASE i > c
      <4>1. j > c /\ q[i] = n + (i - c) /\ q[j] = n + (j - c)
        BY <1>6, <2>2, <2>3, <3>3
      <4> QED BY <1>6, <2>3, <4>1
    <3> QED BY <1>6, <3>1, <3>2, <3>3
  <2>4. ASSUME NEW j \in 1..Len(s), ~s[j].read
        PROVE  \E i \in 1..Len(w) : q[i] = j
    <3>1. CASE j <= n
      <4>1. j \in 1..Len(a) /\ ~a[j].read
        BY <1>1, <2>4, <3>1
      <4>2. PICK i \in 1..c : o[i] = j
        BY <1>5, <4>1 DEF DerivedBy, c
      <4>3. i \in 1..Len(w) /\ i <= c
        BY <1>1, <1>6
      <4> QED BY <2>2, <4>2, <4>3
    <3>2. CASE j > n
      <4> DEFINE i == j - n + c
      <4>1. i \in 1..Len(w) /\ i > c /\ n + (i - c) = j
        BY <1>1, <1>6, <3>2
      <4> QED BY <2>2, <4>1
    <3> QED BY <3>1, <3>2
  <2>5. DerivedBy(s, w, q)
    BY <2>2, <2>3, <2>4 DEF DerivedBy
  <2> QED BY <2>5 DEF Derived
<1> QED BY <1>2, <1>6, <1>7, <1>8

\* What marking a record as read does to it.
LEMMA ReadIs ==
  ASSUME NEW x \in Records
  PROVE  /\ Read(x) \in Records
         /\ Read(x).pos = x.pos /\ Read(x).len = x.len /\ Read(x).end = x.end
         /\ Read(x).read /\ ~Read(x).old
BY DEF Read, Records

\* What marking records as read does to the ring: no record moves.
LEMMA MarkedIs ==
  ASSUME recs \in Seq(Records), NEW n \in Nat
  PROVE  /\ Marked(n) \in Seq(Records) /\ Len(Marked(n)) = Len(recs)
         /\ \A i \in 1..Len(recs) :
              /\ Marked(n)[i].pos = recs[i].pos /\ Marked(n)[i].len = recs[i].len
              /\ Marked(n)[i].end = recs[i].end
              /\ IF recs[i].old \/ i = n THEN Marked(n)[i].read /\ ~Marked(n)[i].old
                 ELSE Marked(n)[i] = recs[i]
         /\ \A t : Chained(recs, t) => Chained(Marked(n), t)
<1> DEFINE w == Marked(n)
           F(i) == IF recs[i].old \/ i = n THEN Read(recs[i]) ELSE recs[i]
<1>1. \A i \in 1..Len(recs) : recs[i] \in Records
  OBVIOUS
<1>2. w = [i \in 1..Len(recs) |-> F(i)]
  BY DEF Marked
<1>3. ASSUME NEW i \in 1..Len(recs)
      PROVE  /\ w[i] \in Records
             /\ w[i].pos = recs[i].pos /\ w[i].len = recs[i].len /\ w[i].end = recs[i].end
             /\ IF recs[i].old \/ i = n THEN w[i].read /\ ~w[i].old ELSE w[i] = recs[i]
  <2>1. w[i] = F(i)
    BY <1>2
  <2> HIDE DEF w
  <2> QED BY <1>1, <2>1, ReadIs
<1> HIDE DEF w, F
<1>4. Len(recs) \in Nat
  OBVIOUS
<1>5. w \in Seq(Records) /\ Len(w) = Len(recs)
  <2>1. w = [i \in 1..Len(recs) |-> w[i]]
    BY <1>2
  <2> QED BY <1>3, <1>4, <2>1
<1>6. ASSUME NEW t, Chained(recs, t) PROVE Chained(w, t)
  BY <1>3, <1>4, <1>5, <1>6 DEF Chained, Leads, InRing
<1> QED BY <1>3, <1>5, <1>6 DEF w

\* The scan that takes the n-th record, and all that follow of the ring.
LEMMA TakenIs ==
  ASSUME recs \in Seq(Records), NEW t, Chained(recs, t), NEW n \in 1..Len(recs)
  PROVE  /\ TakenAt(n) \in Seq(Records)
         /\ Chained(TakenAt(n), t)
         /\ Derived(Marked(n), TakenAt(n))
<1> DEFINE I == {i \in (n + 1)..Len(recs) : ~Marked(n)[i].read}
           next == IF I # {} THEN Min(I) ELSE 0
           e == IF next = 0 THEN Len(recs) ELSE next - 1
<1>1. TakenAt(n) = ScannedTo(Marked(n), e)
  BY DEF TakenAt, SelectInSubSeq
<1>2. Len(recs) \in Nat /\ I \in SUBSET Nat /\ \A i \in I : i \in 1..Len(recs)
  OBVIOUS
<1>3. e \in 0..Len(recs)
  <2>1. I # {} => Min(I) \in I
    <3>1. I \in SUBSET Nat
      BY <1>2
    <3> HIDE DEF I
    <3> QED BY <3>1, MinIs
  <2> HIDE DEF I
  <2>2. CASE I = {}
    BY <1>2, <2>2
  <2>3. CASE I # {}
    <3>1. next = Min(I) /\ Min(I) \in 1..Len(recs)
      BY <1>2, <2>1, <2>3
    <3> HIDE DEF next
    <3> QED BY <1>2, <3>1
  <2> QED BY <2>2, <2>3
<1> HIDE DEF e
<1>4. Marked(n) \in Seq(Records) /\ Len(Marked(n)) = Len(recs) /\ Chained(Marked(n), t)
  BY MarkedIs
<1> QED BY <1>1, <1>3, <1>4, ScannedIs

\* Match finds the first record that is wanted and in time, if there is one.
LEMMA MatchIs ==
  ASSUME recs \in Seq(Records), NEW r
  PROVE  /\ Match(r) \in 0..Len(recs)
         /\ Match(r) # 0 => /\ Match(r) \in 1..Len(recs)
                            /\ ~recs[Match(r)].old /\ Wanted(r, recs[Match(r)])
         /\ \A i \in 1..Len(recs) : ~recs[i].old /\ Wanted(r, recs[i]) => Match(r) # 0 /\ Match(r) <= i
<1> DEFINE I == {i \in 1..Len(recs) : ~recs[i].old /\ Wanted(r, recs[i])}
<1>1. Match(r) = IF I # {} THEN Min(I) ELSE 0
  BY DEF Match, SelectInSeq
<1>2. I \in SUBSET Nat /\ \A i \in I : i \in 1..Len(recs) /\ i # 0
  OBVIOUS
<1>3. I # {} => Min(I) \in I /\ \A y \in I : Min(I) <= y
  <2> HIDE DEF I
  <2> QED BY <1>2, MinIs
<1>4. CASE I = {}
  <2>1. Match(r) = 0
    BY <1>1, <1>4
  <2>2. \A i \in 1..Len(recs) : ~(~recs[i].old /\ Wanted(r, recs[i]))
    BY <1>4
  <2>3. 0 \in 0..Len(recs)
    OBVIOUS
  <2> QED BY <2>1, <2>2, <2>3
<1>5. CASE I # {}
  <2>1. Match(r) \in I /\ \A y \in I : Match(r) <= y
    BY <1>1, <1>3, <1>5
  <2>2. Match(r) \in 1..Len(recs) /\ ~recs[Match(r)].old /\ Wanted(r, recs[Match(r)])
    BY <2>1
  <2>3. Match(r) \in 0..Len(recs) /\ Match(r) # 0
    BY <2>2
  <2> QED BY <2>1, <2>2, <2>3
<1> QED BY <1>4, <1>5

(***************************************************************************)
(* The ring: what is stored in it                                          *)
(***************************************************************************)

\* What Append does to a sequence of records.
LEMMA AppendIs ==
  ASSUME NEW s \in Seq(Records), NEW x \in Records
  PROVE  /\ Append(s, x) \in Seq(Records) /\ Len(Append(s, x)) = Len(s) + 1
         /\ \A i \in 1..Len(s) : Append(s, x)[i] = s[i]
         /\ Append(s, x)[Len(s) + 1] = x
OBVIOUS

\* A record that is put where the last one leads.
LEMMA AppendChained ==
  ASSUME NEW s \in Seq(Records), NEW x \in Records, Chained(s, x.pos),
         InRing(x), x.pos # Size
  PROVE  Append(s, x) \in Seq(Records) /\ Chained(Append(s, x), Leads(x))
<1> DEFINE w == Append(s, x)
<1>1. /\ w \in Seq(Records) /\ Len(w) = Len(s) + 1 /\ Len(s) \in Nat
      /\ \A i \in 1..Len(s) : w[i] = s[i]
      /\ w[Len(s) + 1] = x
  BY AppendIs
<1> HIDE DEF w
<1>2. ASSUME NEW i \in 1..Len(w)
      PROVE  /\ Leads(w[i]) = IF i = Len(w) THEN Leads(x) ELSE w[i + 1].pos
             /\ InRing(w[i]) /\ w[i].pos # Size
  <2>1. CASE i = Len(s) + 1
    BY <1>1, <2>1
  <2>2. CASE i # Len(s) + 1
    <3>1. i \in 1..Len(s) /\ w[i] = s[i] /\ i # Len(w)
      BY <1>1, <2>2
    <3>2. /\ Leads(s[i]) = IF i = Len(s) THEN x.pos ELSE s[i + 1].pos
          /\ InRing(s[i]) /\ s[i].pos # Size
      BY <3>1 DEF Chained
    <3>3. w[i + 1] = IF i = Len(s) THEN x ELSE s[i + 1]
      BY <1>1, <3>1
    <3> QED BY <3>1, <3>2, <3>3
  <2> QED BY <2>1, <2>2
<1>3. Chained(w, Leads(x))
  BY <1>2 DEF Chained
<1> QED BY <1>1, <1>3 DEF w

\* The messages and their lengths.
LEMMA MessageIs ==
  ASSUME NEW m \in Messages
  PROVE  /\ m.size \in Nat /\ m.id \in IDs /\ Length(m) \in Nat /\ Length(m) = m.size + Header
         /\ Header \in Nat /\ Header > 0 /\ Size \in Nat /\ 4 * Length(m) <= Size
         /\ Length(m) > 0 /\ Length(m) < Size
<1>1. m.size \in UNION SizeSets /\ m.id \in IDs
  BY DEF Messages
<1>2. m.size \in Nat /\ 4 * (m.size + Header) <= Size
  BY <1>1, QueueAssumption
<1> HIDE DEF Messages
<1> QED BY <1>1, <1>2, QueueAssumption DEF Length

\* The two records that a message may need.
LEMMA RecordsAre ==
  ASSUME NEW m \in Messages, top \in 0..Size
  PROVE  /\ EndMark \in Records /\ EndMark.pos = top /\ EndMark.len = 0 /\ EndMark.end /\ EndMark.read
         /\ Record(m) \in Records /\ Record(m).pos = Position(m) /\ Record(m).len = Length(m)
         /\ Record(m).msg = m /\ Record(m).end = AtEnd(m) /\ ~Record(m).read /\ ~Record(m).old
<1>1. Length(m) \in 0..(Lengths - 1) /\ Position(m) \in 0..Size
  <2>1. Length(m) \in 0..Size /\ Position(m) \in 0..Size
    BY MessageIs DEF Position
  <2> QED BY <2>1, QueueAssumption
<1>2. AtEnd(m) \in BOOLEAN /\ m \in Messages \cup {NoMessage} /\ NoMessage \in Messages \cup {NoMessage}
  BY DEF AtEnd
<1>3. Record(m) \in Records
  <2> HIDE DEF Messages
  <2> QED BY <1>1, <1>2 DEF Record, Records
<1>4. EndMark \in Records
  <2>1. 0 \in 0..(Lengths - 1)
    BY QueueAssumption
  <2> HIDE DEF Messages
  <2> QED BY <1>2, <2>1 DEF EndMark, Records
<1> QED BY <1>3, <1>4 DEF Record, EndMark

\* Where a record goes, and what is next.
LEMMA PlacesAre ==
  ASSUME NEW m \in Messages, top \in 0..Size, top # Size
  PROVE  /\ Leads(Record(m)) = NewTop(m) /\ NewTop(m) \in 0..Size /\ NewTop(m) # Size
         /\ Position(m) + Length(m) <= Size /\ Position(m) # Size
         /\ PastEnd(m) => Position(m) = 0
         /\ ~PastEnd(m) => Position(m) = top
<1>1. /\ Length(m) \in Nat /\ Header \in Nat /\ Header > 0 /\ Size \in Nat
      /\ Length(m) > 0 /\ Length(m) < Size
  BY MessageIs
<1> DEFINE l == Length(m)
<1>2. Leads(Record(m)) = IF AtEnd(m) THEN 0 ELSE Position(m) + l
  BY RecordsAre DEF Leads
<1> HIDE DEF l
<1>3. AtEnd(m) <=> top + l = Size
  BY DEF AtEnd, End, l
<1>4. PastEnd(m) <=> ~AtEnd(m) /\ top + l >= Size - Header
  BY DEF PastEnd, End, l
<1>5. NewTop(m) = IF AtEnd(m) THEN 0 ELSE Position(m) + l
  BY DEF NewTop, l
<1>6. Position(m) = IF PastEnd(m) THEN 0 ELSE top
  BY DEF Position
<1>7. l \in Nat /\ l > 0 /\ l < Size
  BY <1>1 DEF l
<1>8. Position(m) + l <= Size /\ Position(m) # Size
  BY <1>1, <1>3, <1>4, <1>6, <1>7
<1>9. NewTop(m) \in 0..Size /\ NewTop(m) # Size
  BY <1>1, <1>3, <1>4, <1>5, <1>6, <1>7
<1> QED BY <1>2, <1>5, <1>6, <1>8, <1>9 DEF l

\* What is stored, one after the other.
LEMMA StoredIs ==
  ASSUME NEW m \in Messages, recs \in Seq(Records), top \in 0..Size
  PROVE  recs \o Stored(m) = IF PastEnd(m) THEN Append(Append(recs, EndMark), Record(m))
                             ELSE Append(recs, Record(m))
<1>1. EndMark \in Records /\ Record(m) \in Records
  BY RecordsAre
<1>2. CASE PastEnd(m)
  <2>1. Stored(m) = <<EndMark>> \o <<Record(m)>>
    BY <1>2 DEF Stored
  <2> QED BY <1>1, <1>2, <2>1
<1>3. CASE ~PastEnd(m)
  <2>1. Stored(m) = <<>> \o <<Record(m)>>
    BY <1>3 DEF Stored
  <2> QED BY <1>1, <1>3, <2>1
<1> QED BY <1>2, <1>3

\* The ring stays chained when a message has been stored.
LEMMA StoreChained ==
  ASSUME NEW m \in Messages, recs \in Seq(Records), top \in 0..Size, top # Size, Chained(recs, top)
  PROVE  /\ recs \o Stored(m) \in Seq(Records)
         /\ Chained(recs \o Stored(m), NewTop(m))
<1>1. /\ EndMark \in Records /\ EndMark.pos = top /\ EndMark.len = 0 /\ EndMark.end
      /\ Record(m) \in Records /\ Record(m).pos = Position(m) /\ Record(m).len = Length(m)
  BY RecordsAre
<1>2. /\ Leads(Record(m)) = NewTop(m) /\ Position(m) + Length(m) <= Size /\ Position(m) # Size
      /\ PastEnd(m) => Position(m) = 0
      /\ ~PastEnd(m) => Position(m) = top
  BY PlacesAre
<1>5. InRing(Record(m))
  BY <1>1, <1>2 DEF InRing
<1>3. CASE PastEnd(m)
  <2>1. Leads(EndMark) = 0 /\ InRing(EndMark)
    BY <1>1, QueueAssumption DEF Leads, InRing
  <2>2. Append(recs, EndMark) \in Seq(Records) /\ Chained(Append(recs, EndMark), 0)
    BY <1>1, <2>1, AppendChained
  <2>3. /\ Append(Append(recs, EndMark), Record(m)) \in Seq(Records)
        /\ Chained(Append(Append(recs, EndMark), Record(m)), NewTop(m))
    <3> HIDE DEF EndMark, Record
    <3> QED BY <1>1, <1>2, <1>3, <1>5, <2>2, AppendChained
  <2> QED BY <1>3, <2>3, StoredIs
<1>4. CASE ~PastEnd(m)
  BY <1>1, <1>2, <1>4, <1>5, AppendChained, StoredIs
<1> QED BY <1>3, <1>4

\* Which of the records may be unread then.
LEMMA StoredUnread ==
  ASSUME NEW m \in Messages, recs \in Seq(Records), top \in 0..Size,
         NEW w, w = recs \o Stored(m), NEW i \in 1..Len(w), ~w[i].read
  PROVE  \/ i \in 1..Len(recs) /\ w[i] = recs[i]
         \/ i = Len(w) /\ i \notin 1..Len(recs) /\ w[i] = Record(m)
<1>1. EndMark \in Records /\ EndMark.read /\ Record(m) \in Records /\ Len(recs) \in Nat
  BY RecordsAre
<1>2. w = IF PastEnd(m) THEN Append(Append(recs, EndMark), Record(m)) ELSE Append(recs, Record(m))
  BY StoredIs
<1> HIDE DEF Messages
<1>3. CASE PastEnd(m)
  <2> DEFINE s == Append(recs, EndMark)
  <2>1. /\ s \in Seq(Records) /\ Len(s) = Len(recs) + 1 /\ s[Len(recs) + 1] = EndMark
        /\ \A j \in 1..Len(recs) : s[j] = recs[j]
    BY <1>1, AppendIs
  <2>2. w = Append(s, Record(m))
    BY <1>2, <1>3
  <2> HIDE DEF s
  <2>3. Len(w) = Len(s) + 1 /\ w[Len(s) + 1] = Record(m) /\ \A j \in 1..Len(s) : w[j] = s[j]
    BY <1>1, <2>1, <2>2, AppendIs
  <2> QED BY <1>1, <2>1, <2>3
<1>4. CASE ~PastEnd(m)
  <2>1. w = Append(recs, Record(m))
    BY <1>2, <1>4
  <2>2. /\ Len(w) = Len(recs) + 1 /\ w[Len(recs) + 1] = Record(m)
        /\ \A j \in 1..Len(recs) : w[j] = recs[j]
    BY <1>1, <2>1, AppendIs
  <2> QED BY <1>1, <2>2
<1> QED BY <1>3, <1>4

(***************************************************************************)
(* The invariant                                                           *)
(***************************************************************************)

\* What At takes of a sequence.
LEMMA AtIs ==
  ASSUME NEW S, NEW s \in Seq(S), NEW K \in SUBSET (1..Len(s))
  PROVE  /\ At(s, K) \in Seq(S)
         /\ \A n \in 1..Len(At(s, K)) : \E k \in K : At(s, K)[n] = s[k]
         /\ \A k \in K : \E n \in 1..Len(At(s, K)) : At(s, K)[n] = s[k]
<1> DEFINE C == Cardinality(K)
           f(n) == Nth(K, n)
           w == At(s, K)
<1>1. /\ C \in Nat /\ Len(s) \in Nat
      /\ \A n \in 1..C : f(n) \in K /\ f(n) \in 1..Len(s)
      /\ \A k \in K : \E n \in 1..C : f(n) = k
  <2>1. Len(s) \in Nat
    OBVIOUS
  <2>2. /\ C \in Nat
        /\ \A n \in 1..C : f(n) \in K
        /\ \A k \in K : \E n \in 1..C : f(n) = k
    BY <2>1, NthIs
  <2> HIDE DEF C, f
  <2> QED BY <2>1, <2>2
<1>2. w = [n \in 1..C |-> s[f(n)]]
  BY DEF At
<1> HIDE DEF C, f
<1>3. \A n \in 1..C : w[n] = s[f(n)] /\ w[n] \in S
  BY <1>1, <1>2
<1>4. w \in Seq(S) /\ Len(w) = C
  BY <1>1, <1>2
<1> HIDE DEF w
<1>5. \A n \in 1..Len(w) : \E k \in K : w[n] = s[k]
  BY <1>1, <1>3, <1>4
<1>6. \A k \in K : \E n \in 1..Len(w) : w[n] = s[k]
  BY <1>1, <1>3, <1>4
<1> QED BY <1>4, <1>5, <1>6 DEF w

\* Who waits, and for what.
Waiting == [me : Readers, msg : IDs \cup {AnyID}]

\* The ring is chained, and holds messages.
RingOK ==
  /\ sizes \in SizeSets /\ broken \in BOOLEAN
  /\ recs \in Seq(Records) /\ top \in 0..Size /\ top # Size
  /\ Chained(recs, top)
  /\ \A i \in 1..Len(recs) : ~recs[i].read => recs[i].msg \in Messages

\* Who is on the list of waiters waits for one of its IDs.
WaitOK ==
  /\ waiters \in Seq(Waiting) /\ event \in [Readers -> BOOLEAN]
  /\ \A i \in 1..Len(waiters) : waiters[i].msg \in Waits[waiters[i].me]

\* Writers send a message of a size in use, readers wait for one of their IDs, as their places say.
CallOK ==
  /\ holder \in Readers \cup {NoOne}
  /\ pc \in [Threads -> {"idle", "sending", "scanning", "asleep", "woken", "stuck"}]
  /\ msg \in [Writers -> Messages \cup {NoMessage}]
  /\ asked \in [Readers -> IDs \cup {AnyID}]
  /\ got \in [Readers -> Messages \cup {Pending, NoMessage, TooBig}]
  /\ \A w \in Writers : pc[w] = "sending" => msg[w] \in Messages /\ msg[w].size \in sizes
  /\ \A r \in Readers : /\ got[r] = Pending <=> pc[r] # "idle"
                        /\ pc[r] # "idle" => asked[r] \in Waits[r]

\* The invariant.
Inv == RingOK /\ WaitOK /\ CallOK

\* Every variable has its type.
LEMMA TypesOf == Inv => TypeOK
BY DEF Inv, RingOK, WaitOK, CallOK, TypeOK, Waiting

\* A step that does not touch the ring keeps what is known of it.
LEMMA RingSame == ASSUME RingOK, UNCHANGED ring PROVE RingOK'
BY DEF RingOK, ring, Chained, Leads

\* A step that does not touch the list of waiters keeps what is known of it.
LEMMA WaitSame == ASSUME WaitOK, UNCHANGED <<waiters, event>> PROVE WaitOK'
BY DEF WaitOK

\* ScanForWaiting: who is taken off the list is woken.
LEMMA WakeIs ==
  ASSUME WaitOK, NEW id, WakeWaiters(id)
  PROVE  /\ WaitOK'
         /\ \A r \in Readers : event[r] => event'[r]
         /\ \A i \in 1..Len(waiters) :
              WaitsFor(waiters[i], id) => event'[waiters[i].me]
         /\ \A i \in 1..Len(waiters) : ~WaitsFor(waiters[i], id) =>
              \E n \in 1..Len(waiters') : waiters'[n] = waiters[i]
<1> DEFINE K == {i \in 1..Len(waiters) : ~WaitsFor(waiters[i], id)}
<1>2. K \in SUBSET (1..Len(waiters)) /\ waiters \in Seq(Waiting)
  BY DEF WaitOK
<1>1. waiters' = At(waiters, K)
  <2>1. DOMAIN waiters = 1..Len(waiters)
    BY <1>2
  <2>2. waiters' = At(waiters, {i \in DOMAIN waiters : ~WaitsFor(waiters[i], id)})
    BY DEF WakeWaiters
  <2> QED BY <2>1, <2>2, Zenon
<1>3. \A i \in 1..Len(waiters) : i \in K <=> ~WaitsFor(waiters[i], id)
  OBVIOUS
<1> HIDE DEF K
<1>4. /\ waiters' \in Seq(Waiting)
      /\ \A n \in 1..Len(waiters') : \E k \in K : waiters'[n] = waiters[k]
      /\ \A k \in K : \E n \in 1..Len(waiters') : waiters'[n] = waiters[k]
  BY <1>1, <1>2, AtIs
<1>5. \A i \in 1..Len(waiters) : waiters[i].me \in Readers
  <2>1. \A i \in 1..Len(waiters) : waiters[i] \in Waiting
    BY <1>2
  <2> QED BY <2>1 DEF Waiting
<1>6. event' = [r \in Readers |->
                 event[r] \/ \E i \in DOMAIN waiters : waiters[i].me = r /\ WaitsFor(waiters[i], id)]
  BY DEF WakeWaiters
<1>7. event' \in [Readers -> BOOLEAN]
  BY <1>6, Zenon
<1>8. \A r \in Readers : event[r] => event'[r]
  BY <1>6, Zenon
<1>9. ASSUME NEW i \in 1..Len(waiters), WaitsFor(waiters[i], id) PROVE event'[waiters[i].me]
  <2>1. i \in DOMAIN waiters
    BY <1>2
  <2> QED BY <1>5, <1>6, <1>9, <2>1, Zenon
<1>10. \A n \in 1..Len(waiters') : waiters'[n].msg \in Waits[waiters'[n].me]
  BY <1>2, <1>4 DEF WaitOK
<1>11. WaitOK'
  BY <1>4, <1>7, <1>10 DEF WaitOK
<1> QED BY <1>3, <1>4, <1>8, <1>9, <1>11

\* CollapseWaiting: who waits for another ID stays on the list.
LEMMA CollapseIs ==
  ASSUME WaitOK, NEW id
  PROVE  /\ Collapse(id) \in Seq(Waiting)
         /\ \A n \in 1..Len(Collapse(id)) : \E i \in 1..Len(waiters) : Collapse(id)[n] = waiters[i]
         /\ \A i \in 1..Len(waiters) : waiters[i].msg # id \/ id = AnyID =>
              \E n \in 1..Len(Collapse(id)) : Collapse(id)[n] = waiters[i]
<1> DEFINE K == {i \in 1..Len(waiters) : waiters[i].msg # id}
<1>1. waiters \in Seq(Waiting) /\ K \in SUBSET (1..Len(waiters))
  BY DEF WaitOK
<1>2. CASE id = AnyID
  BY <1>1, <1>2 DEF Collapse
<1>3. CASE id # AnyID
  <2>1. Collapse(id) = At(waiters, K)
    <3>1. DOMAIN waiters = 1..Len(waiters)
      BY <1>1
    <3>2. Collapse(id) = At(waiters, {i \in DOMAIN waiters : waiters[i].msg # id})
      BY <1>3 DEF Collapse
    <3> QED BY <3>1, <3>2, Zenon
  <2>2. \A i \in 1..Len(waiters) : i \in K <=> waiters[i].msg # id
    OBVIOUS
  <2> HIDE DEF K
  <2> QED BY <1>1, <1>3, <2>1, <2>2, AtIs
<1> QED BY <1>2, <1>3

\* CollapseWaiting leaves a list of waiters.
LEMMA CollapseKeeps ==
  ASSUME WaitOK, NEW id, waiters' = Collapse(id), UNCHANGED event PROVE WaitOK'
<1>1. /\ Collapse(id) \in Seq(Waiting)
      /\ \A n \in 1..Len(Collapse(id)) : \E i \in 1..Len(waiters) : Collapse(id)[n] = waiters[i]
  BY CollapseIs
<1>2. \A n \in 1..Len(waiters') : waiters'[n].msg \in Waits[waiters'[n].me]
  BY <1>1 DEF WaitOK
<1> QED BY <1>1, <1>2 DEF WaitOK

\* What is unread after a scan was so before it, in time, at the same place, and is not what was taken.
LEMMA UnreadOf ==
  ASSUME RingOK, NEW n \in Nat, NEW w, w \in Seq(Records), Derived(Marked(n), w),
         NEW k \in 1..Len(w), ~w[k].read
  PROVE  \E i \in 1..Len(recs) : /\ i # n /\ ~recs[i].read /\ ~recs[i].old
                                 /\ recs[i].msg = w[k].msg /\ recs[i].pos = w[k].pos
                                 /\ recs[i].len = w[k].len /\ ~w[k].old
<1>1. PICK o : DerivedBy(Marked(n), w, o)
  BY DEF Derived
<1>2. /\ Len(Marked(n)) = Len(recs)
      /\ \A i \in 1..Len(recs) :
           /\ IF recs[i].old \/ i = n THEN Marked(n)[i].read /\ ~Marked(n)[i].old
              ELSE Marked(n)[i] = recs[i]
  BY MarkedIs DEF RingOK
<1>3. o[k] \in 1..Len(recs) /\ Alike(w[k], Marked(n)[o[k]])
  BY <1>1, <1>2 DEF DerivedBy
<1>4. ~Marked(n)[o[k]].read
  BY <1>3 DEF Alike
<1>5. ~recs[o[k]].old /\ o[k] # n /\ Marked(n)[o[k]] = recs[o[k]]
  BY <1>2, <1>3, <1>4
<1> QED BY <1>3, <1>4, <1>5 DEF Alike

\* A ring that a scan has passed is one.
LEMMA ScanRing ==
  ASSUME RingOK, NEW n \in Nat, recs' \in Seq(Records), Chained(recs', top), Derived(Marked(n), recs'),
         UNCHANGED <<sizes, top, broken>>
  PROVE  RingOK'
<1>1. \A i \in 1..Len(recs') : ~recs'[i].read => recs'[i].msg \in Messages
  <2> TAKE i \in 1..Len(recs')
  <2> HAVE ~recs'[i].read
  <2>1. PICK j \in 1..Len(recs) : ~recs[j].read /\ recs[j].msg = recs'[i].msg
    BY UnreadOf
  <2> QED BY <2>1 DEF RingOK
<1>2. Chained(recs', top')
  OBVIOUS
<1>3. Chained(recs, top)'
  BY <1>2 DEF Chained, Leads
<1> QED BY <1>1, <1>3 DEF RingOK

(***************************************************************************)
(* Each step keeps it                                                      *)
(***************************************************************************)

\* The invariant holds at first.
LEMMA InitInv == Init => Inv
<1> SUFFICES ASSUME Init PROVE Inv
  OBVIOUS
<1>1. RingOK
  <2>1. recs = <<>> /\ top = 0 /\ sizes \in SizeSets /\ ~broken /\ broken \in BOOLEAN
    BY DEF Init
  <2>2. recs \in Seq(Records) /\ Len(recs) = 0
    BY <2>1
  <2> QED BY <2>1, <2>2, QueueAssumption DEF RingOK, Chained
<1>2. WaitOK
  <2>1. waiters = <<>> /\ event = [r \in Readers |-> FALSE]
    BY DEF Init
  <2>2. waiters \in Seq(Waiting) /\ Len(waiters) = 0
    BY <2>1
  <2> QED BY <2>1, <2>2 DEF WaitOK
<1>3. CallOK
  <2>1. Pending # NoMessage
    BY QueueAssumption
  <2> HIDE DEF Messages
  <2> QED BY <2>1 DEF Init, CallOK, Threads
<1> QED BY <1>1, <1>2, <1>3 DEF Inv

\* A call of EnqueMsgEx begins.
LEMMA EnqueMsgInv ==
  ASSUME Inv, NEW w \in Writers, EnqueMsg(w) PROVE Inv'
<1>1. RingOK' /\ WaitOK'
  BY RingSame, WaitSame DEF Inv, EnqueMsg
<1>2. PICK m \in Messages : m.size \in sizes /\ msg' = [msg EXCEPT ![w] = m]
  BY DEF EnqueMsg
<1>3. /\ pc' = [pc EXCEPT ![w] = "sending"] /\ UNCHANGED <<sizes, holder, asked, got>>
  BY DEF EnqueMsg, ring
<1>4. CallOK
  BY DEF Inv
<1>5. w \in Threads /\ w \notin Readers
  BY QueueAssumption DEF Threads
<1> HIDE DEF Messages, Threads
<1>6. CallOK'
  BY <1>2, <1>3, <1>4, <1>5 DEF CallOK
<1> QED BY <1>1, <1>6 DEF Inv

\* A writer is done.
LEMMA SentInv ==
  ASSUME CallOK, NEW w \in Writers, Sent(w) PROVE CallOK'
<1>1. w \in Threads /\ w \notin Readers
  BY QueueAssumption DEF Threads
<1> HIDE DEF Messages, Threads
<1> QED BY <1>1 DEF Sent, CallOK

\* EnqueMsgEx stores a message, and wakes who waits for it.
LEMMA StoreInv ==
  ASSUME Inv, NEW w \in Writers, Store(w) PROVE Inv'
<1>1. CallOK' /\ WaitOK'
  BY SentInv, WakeIs DEF Inv, Store
<1> DEFINE m == msg[w]
<1>2. m \in Messages
  BY DEF Inv, CallOK, Store
<1>3. recs' = recs \o Stored(m) /\ top' = NewTop(m) /\ UNCHANGED <<sizes, broken>>
  BY DEF Store, Sent
<1>4. /\ sizes \in SizeSets /\ broken \in BOOLEAN
      /\ recs \in Seq(Records) /\ top \in 0..Size /\ top # Size /\ Chained(recs, top)
      /\ \A i \in 1..Len(recs) : ~recs[i].read => recs[i].msg \in Messages
  BY DEF Inv, RingOK
<1> HIDE DEF m
<1>5. /\ recs' \in Seq(Records) /\ Chained(recs', top')
      /\ top' \in 0..Size /\ top' # Size
  BY <1>2, <1>3, <1>4, StoreChained, PlacesAre
<1>6. /\ EndMark \in Records /\ EndMark.read /\ Record(m) \in Records /\ Record(m).msg = m
  BY <1>2, <1>4, RecordsAre
<1>7. recs' = IF PastEnd(m) THEN Append(Append(recs, EndMark), Record(m)) ELSE Append(recs, Record(m))
  BY <1>2, <1>3, <1>4, StoredIs
<1>8. \A i \in 1..Len(recs') : ~recs'[i].read => recs'[i].msg \in Messages
  <2> SUFFICES ASSUME NEW i \in 1..Len(recs'), ~recs'[i].read PROVE recs'[i].msg \in Messages
    OBVIOUS
  <2>1. (i \in 1..Len(recs) /\ recs'[i] = recs[i]) \/ recs'[i] = Record(m)
    BY <1>2, <1>3, <1>4, StoredUnread
  <2> QED BY <1>2, <1>4, <1>6, <2>1
<1>9. Chained(recs, top)'
  BY <1>5 DEF Chained, Leads
<1>10. RingOK'
  BY <1>3, <1>4, <1>5, <1>8, <1>9 DEF RingOK
<1> QED BY <1>1, <1>10 DEF Inv

\* EnqueMsgEx stores over a record, after which the model stops, or gives up.
LEMMA OverwriteInv ==
  ASSUME Inv, NEW w \in Writers, Overwrite(w) \/ GiveUp(w) PROVE Inv'
<1>1. Sent(w) /\ UNCHANGED <<sizes, top, recs, waiters, event>> /\ (broken' = broken \/ broken')
  BY DEF Overwrite, GiveUp, Sent
<1>2. CallOK' /\ WaitOK'
  BY <1>1, SentInv, WaitSame DEF Inv
<1>3. RingOK'
  <2>1. broken' \in BOOLEAN
    BY DEF Inv, RingOK, Overwrite, GiveUp
  <2> QED BY <1>1, <2>1 DEF Inv, RingOK, Chained, Leads
<1> QED BY <1>2, <1>3 DEF Inv

\* A call of DequeMsgEx begins.
LEMMA DequeMsgInv ==
  ASSUME Inv, NEW r \in Readers, DequeMsg(r) PROVE Inv'
<1>1. RingOK' /\ WaitOK'
  BY RingSame, WaitSame DEF Inv, DequeMsg
<1>2. PICK id \in Waits[r] : asked' = [asked EXCEPT ![r] = id]
  BY DEF DequeMsg
<1>3. /\ pc' = [pc EXCEPT ![r] = "scanning"] /\ got' = [got EXCEPT ![r] = Pending]
      /\ UNCHANGED <<sizes, holder, msg>>
  BY DEF DequeMsg, ring
<1>4. CallOK
  BY DEF Inv
<1>5. r \in Threads /\ r \notin Writers /\ id \in IDs \cup {AnyID}
  BY QueueAssumption DEF Threads
<1> HIDE DEF Messages, Threads
<1>6. CallOK'
  BY <1>2, <1>3, <1>4, <1>5 DEF CallOK
<1> QED BY <1>1, <1>6 DEF Inv

\* The ring after the scan of DequeMsgEx, whatever it finds.
LEMMA ScansRing ==
  ASSUME RingOK, NEW r \in Readers,
         \/ Receive(r) \/ ReceiveTooBig(r) \/ ReceiveNothing(r) \/ Sleep(r) \/ NoPlace(r)
  PROVE  /\ RingOK' /\ recs' \in Seq(Records)
         /\ IF Receive(r) THEN Match(r) \in 1..Len(recs) /\ Derived(Marked(Match(r)), recs')
            ELSE Derived(Marked(0), recs')
<1>1. UNCHANGED <<sizes, top, broken>> /\ recs \in Seq(Records) /\ Chained(recs, top)
  BY DEF RingOK, Receive, ReceiveTooBig, ReceiveNothing, Sleep, NoPlace, Scans
<1>2. CASE Receive(r)
  <2>1. Match(r) \in 1..Len(recs)
    BY <1>1, <1>2, MatchIs DEF Receive
  <2>2. recs' = TakenAt(Match(r))
    BY <1>2 DEF Receive
  <2>3. recs' \in Seq(Records) /\ Chained(recs', top) /\ Derived(Marked(Match(r)), recs')
    BY <1>1, <2>1, <2>2, TakenIs
  <2>4. Match(r) \in Nat
    BY <2>1
  <2>5. RingOK'
    BY <1>1, <2>3, <2>4, ScanRing
  <2> QED BY <1>2, <2>1, <2>3, <2>5
<1>3. CASE ~Receive(r)
  <2>1. Marked(0) \in Seq(Records) /\ Len(Marked(0)) = Len(recs) /\ Chained(Marked(0), top)
    BY <1>1, MarkedIs
  <2>2. CASE ReceiveTooBig(r)
    <3>1. Match(r) - 1 \in 0..Len(Marked(0))
      <4>1. Match(r) \in 1..Len(recs)
        BY <1>1, <2>2, MatchIs DEF ReceiveTooBig
      <4> QED BY <1>1, <2>1, <4>1
    <3>2. recs' = ScannedTo(Marked(0), Match(r) - 1)
      BY <2>2 DEF ReceiveTooBig
    <3>3. recs' \in Seq(Records) /\ Chained(recs', top) /\ Derived(Marked(0), recs')
      BY <2>1, <3>1, <3>2, ScannedIs
    <3>4. RingOK'
      BY <1>1, <3>3, ScanRing
    <3> QED BY <1>3, <3>3, <3>4
  <2>3. CASE ReceiveNothing(r) \/ Sleep(r) \/ NoPlace(r)
    <3>1. recs' = Passed(Marked(0))
      BY <2>3 DEF ReceiveNothing, Sleep, NoPlace
    <3>2. recs' \in Seq(Records) /\ Chained(recs', top) /\ Derived(Marked(0), recs')
      BY <2>1, <3>1, PassedIs
    <3>3. RingOK'
      BY <1>1, <3>2, ScanRing
    <3> QED BY <1>3, <3>2, <3>3
  <2> QED BY <1>3, <2>2, <2>3
<1> QED BY <1>2, <1>3

\* The calls, when a reader goes on to another place.
LEMMA GoesOnCalls ==
  ASSUME CallOK, NEW r \in Readers, pc[r] # "idle", NEW at \in {"asleep", "woken", "stuck"},
         pc' = [pc EXCEPT ![r] = at], holder' \in {holder, r}, UNCHANGED <<sizes, msg, asked, got>>
  PROVE  CallOK'
<1>1. r \in Threads /\ r \notin Writers
  BY QueueAssumption DEF Threads
<1> HIDE DEF Messages, Threads
<1> QED BY <1>1 DEF CallOK

\* The calls, when a reader returns.
LEMMA ReturnCalls ==
  ASSUME CallOK, NEW r \in Readers, NEW what, what \in Messages \cup {NoMessage, TooBig}, Return(r, what),
         holder' \in {holder, r}, UNCHANGED <<sizes, msg, asked>>
  PROVE  CallOK'
<1>1. r \in Threads /\ r \notin Writers
  BY QueueAssumption DEF Threads
<1>2. what # Pending
  BY QueueAssumption DEF Messages
<1> HIDE DEF Messages, Threads
<1> QED BY <1>1, <1>2 DEF CallOK, Return

\* The calls after a scan.
LEMMA ScansCalls ==
  ASSUME RingOK, CallOK, NEW r \in Readers,
         \/ Receive(r) \/ ReceiveTooBig(r) \/ ReceiveNothing(r) \/ Sleep(r) \/ NoPlace(r)
  PROVE  CallOK'
<1>1. CASE Receive(r)
  <2>1. recs[Match(r)].msg \in Messages
    <3>1. Match(r) \in 1..Len(recs) /\ Wanted(r, recs[Match(r)])
      BY <1>1, MatchIs DEF Receive, RingOK
    <3> QED BY <3>1 DEF Wanted, RingOK
  <2> QED BY <1>1, <2>1, ReturnCalls DEF Receive, Scans
<1>2. CASE ReceiveTooBig(r)
  BY <1>2, ReturnCalls DEF ReceiveTooBig, Scans
<1>3. CASE ReceiveNothing(r)
  BY <1>3, ReturnCalls DEF ReceiveNothing, Scans
<1>4. CASE Sleep(r)
  <2>1. pc[r] # "idle" /\ pc' = [pc EXCEPT ![r] = "asleep"] /\ UNCHANGED <<sizes, holder, msg, asked, got>>
    BY <1>4 DEF Sleep
  <2> QED BY <2>1, GoesOnCalls
<1>5. CASE NoPlace(r)
  <2>1. /\ pc[r] # "idle" /\ pc' = [pc EXCEPT ![r] = "stuck"] /\ holder' = r
        /\ UNCHANGED <<sizes, msg, asked, got>>
    BY <1>5 DEF NoPlace
  <2> QED BY <2>1, GoesOnCalls
<1> QED BY <1>1, <1>2, <1>3, <1>4, <1>5

\* The waiters after a scan.
LEMMA ScansWait ==
  ASSUME WaitOK, CallOK, NEW r \in Readers,
         \/ Receive(r) \/ ReceiveTooBig(r) \/ ReceiveNothing(r) \/ Sleep(r) \/ NoPlace(r)
  PROVE  WaitOK'
<1>1. CASE Receive(r) \/ ReceiveTooBig(r) \/ ReceiveNothing(r)
  <2>1. Scans(r)
    BY <1>1 DEF Receive, ReceiveTooBig, ReceiveNothing
  <2>2. CASE pc[r] = "woken"
    BY <2>1, <2>2, CollapseKeeps DEF Scans
  <2>3. CASE pc[r] # "woken"
    BY <2>1, <2>3, WaitSame DEF Scans
  <2> QED BY <2>2, <2>3
<1>2. CASE Sleep(r)
  <2> DEFINE x == [me |-> r, msg |-> asked[r]]
  <2>1. waiters' = Append(waiters, x) /\ event' = event /\ pc[r] = "scanning"
    BY <1>2 DEF Sleep
  <2>2. asked[r] \in IDs \cup {AnyID} /\ asked[r] \in Waits[r]
    BY <2>1 DEF CallOK
  <2>3. x \in Waiting /\ x.me = r /\ x.msg = asked[r]
    BY <2>2 DEF Waiting
  <2> HIDE DEF x
  <2>4. waiters \in Seq(Waiting)
    BY DEF WaitOK
  <2>5. /\ waiters' \in Seq(Waiting) /\ Len(waiters') = Len(waiters) + 1 /\ waiters'[Len(waiters) + 1] = x
        /\ \A i \in 1..Len(waiters) : waiters'[i] = waiters[i]
    BY <2>1, <2>3, <2>4
  <2>6. \A i \in 1..Len(waiters') : waiters'[i].msg \in Waits[waiters'[i].me]
    <3>1. \A i \in 1..Len(waiters') : i \in 1..Len(waiters) \/ i = Len(waiters) + 1
      BY <2>4, <2>5
    <3> QED BY <2>2, <2>3, <2>5, <3>1 DEF WaitOK
  <2> QED BY <2>1, <2>5, <2>6 DEF WaitOK
<1>3. CASE NoPlace(r)
  BY <1>3, WaitSame DEF NoPlace
<1> QED BY <1>1, <1>2, <1>3

\* A scan keeps the invariant.
LEMMA ScansInv ==
  ASSUME Inv, NEW r \in Readers,
         \/ Receive(r) \/ ReceiveTooBig(r) \/ ReceiveNothing(r) \/ Sleep(r) \/ NoPlace(r)
  PROVE  Inv'
BY ScansRing, ScansCalls, ScansWait DEF Inv

\* A reader wakes up.
LEMMA WakeUpInv ==
  ASSUME Inv, NEW r \in Readers, WakeUp(r) PROVE Inv'
<1>1. /\ UNCHANGED ring /\ UNCHANGED <<waiters, holder, msg, asked, got>> /\ pc[r] # "idle"
      /\ event' = [event EXCEPT ![r] = FALSE] /\ pc' = [pc EXCEPT ![r] = "woken"]
  BY DEF WakeUp
<1>2. RingOK' /\ CallOK'
  BY <1>1, RingSame, GoesOnCalls DEF Inv, ring
<1>3. WaitOK'
  BY <1>1 DEF Inv, WaitOK
<1> QED BY <1>2, <1>3 DEF Inv

\* A reader is woken for another purpose.
LEMMA InterruptInv ==
  ASSUME Inv, NEW r \in Readers, Interrupt(r) PROVE Inv'
<1>1. /\ UNCHANGED ring /\ UNCHANGED <<waiters, holder, pc, msg, asked, got>>
      /\ event' = [event EXCEPT ![r] = TRUE]
  BY DEF Interrupt
<1>2. RingOK'
  BY <1>1, RingSame DEF Inv
<1>3. WaitOK'
  BY <1>1 DEF Inv, WaitOK
<1>4. CallOK'
  BY <1>1 DEF Inv, CallOK, ring
<1> QED BY <1>2, <1>3, <1>4 DEF Inv

\* What Expire does: the first of the messages in time is not in time any more.
LEMMA ExpireIs ==
  ASSUME RingOK, Expire
  PROVE  \E i \in 1..Len(recs) :
           /\ ~recs[i].read /\ ~recs[i].old
           /\ \A j \in 1..Len(recs) : j < i => recs[j].read \/ recs[j].old
           /\ recs' \in Seq(Records) /\ Len(recs') = Len(recs)
           /\ \A j \in 1..Len(recs) : /\ recs'[j].pos = recs[j].pos /\ recs'[j].len = recs[j].len
                                      /\ recs'[j].end = recs[j].end /\ recs'[j].read = recs[j].read
                                      /\ recs'[j].msg = recs[j].msg
                                      /\ IF j = i THEN recs'[j].old ELSE recs'[j] = recs[j]
<1> DEFINE I == {i \in 1..Len(recs) : ~recs[i].read /\ ~recs[i].old}
           i == SelectInSeq(recs, LAMBDA x : ~x.read /\ ~x.old)
<1>1. i = IF I # {} THEN Min(I) ELSE 0
  BY DEF SelectInSeq
<1>2. i # 0 /\ recs' = [recs EXCEPT ![i].old = TRUE]
  BY DEF Expire
<1>3. I \in SUBSET Nat /\ recs \in Seq(Records)
  BY DEF RingOK
<1> HIDE DEF i
<1>4. i \in I /\ \A y \in I : i <= y
  <2> HIDE DEF I
  <2> QED BY <1>1, <1>2, <1>3, MinIs
<1>5. i \in 1..Len(recs) /\ ~recs[i].read /\ ~recs[i].old
  BY <1>4
<1>6. \A j \in 1..Len(recs) : j < i => recs[j].read \/ recs[j].old
  BY <1>4
<1> DEFINE x == [recs[i] EXCEPT !.old = TRUE]
<1>7. /\ x \in Records /\ x.old /\ x.pos = recs[i].pos /\ x.len = recs[i].len
      /\ x.end = recs[i].end /\ x.read = recs[i].read /\ x.msg = recs[i].msg
  <2>1. recs[i] \in Records
    BY <1>3, <1>5
  <2> QED BY <2>1 DEF Records
<1>8. recs' = [recs EXCEPT ![i] = x]
  BY <1>2
<1> HIDE DEF x, I
<1>9. /\ recs' \in Seq(Records) /\ Len(recs') = Len(recs) /\ recs'[i] = x
      /\ \A j \in 1..Len(recs) : j # i => recs'[j] = recs[j]
  BY <1>3, <1>5, <1>7, <1>8
<1> QED BY <1>5, <1>6, <1>7, <1>9

\* The time to live of a message passes.
LEMMA ExpireInv ==
  ASSUME Inv, Expire PROVE Inv'
<1>1. UNCHANGED <<sizes, top, broken, waiters, event, holder, pc, msg, asked, got>>
  BY DEF Expire
<1>2. CallOK' /\ WaitOK'
  BY <1>1 DEF Inv, CallOK, WaitOK
<1>3. /\ recs' \in Seq(Records) /\ Len(recs') = Len(recs)
      /\ \A j \in 1..Len(recs) : /\ recs'[j].pos = recs[j].pos /\ recs'[j].len = recs[j].len
                                 /\ recs'[j].end = recs[j].end /\ recs'[j].read = recs[j].read
                                 /\ recs'[j].msg = recs[j].msg
  BY ExpireIs DEF Inv
<1>4. recs \in Seq(Records) /\ Len(recs) \in Nat /\ Chained(recs, top)
  BY DEF Inv, RingOK
<1>5. Chained(recs', top)
  BY <1>3, <1>4 DEF Chained, Leads, InRing
<1>6. Chained(recs, top)'
  BY <1>1, <1>5 DEF Chained, Leads
<1>7. RingOK'
  BY <1>1, <1>3, <1>6 DEF Inv, RingOK
<1> QED BY <1>2, <1>7 DEF Inv

\* Every step keeps the invariant.
LEMMA NextInv == Inv /\ [Next]_vars => Inv'
<1> SUFFICES ASSUME Inv, [Next]_vars PROVE Inv'
  OBVIOUS
<1>1. ASSUME NEW w \in Writers, WriterNext(w) PROVE Inv'
  BY <1>1, EnqueMsgInv, StoreInv, OverwriteInv DEF WriterNext
<1>2. ASSUME NEW r \in Readers, ReaderNext(r) \/ Interrupt(r) PROVE Inv'
  BY <1>2, DequeMsgInv, ScansInv, WakeUpInv, InterruptInv DEF ReaderNext
<1>3. CASE UNCHANGED vars
  <2>1. RingOK' /\ WaitOK'
    BY <1>3, RingSame, WaitSame DEF Inv, vars
  <2>2. CallOK'
    BY <1>3 DEF Inv, CallOK, vars, ring
  <2> QED BY <2>1, <2>2 DEF Inv
<1> QED BY <1>1, <1>2, <1>3, ExpireInv DEF Next

\* The invariant holds of every ring, for any number of writers, readers, IDs, sizes and places: records
\* lead to records, and calls and waiters agree (EnqueMsgEx and DequeMsgEx under the section of the queue).
THEOREM Safe == Spec => []Inv
<1> QED BY InitInv, NextInv, PTL DEF Spec

\* Every variable has its type.
THEOREM TypeCorrect == Spec => []TypeOK
BY Safe, TypesOf, PTL

\* Whatever is stored, taken from the middle, joined or marked read, each record leads to the next and
\* the last one to Top: a scan that starts at Bottom ends (EnqueMsgEx and DequeMsgEx move by the same
\* lengths).
THEOREM RingIsAlwaysChained == Spec => []RingIsChained
<1>1. Inv => RingIsChained
  BY DEF Inv, RingOK, Chained, RingIsChained
<1> QED BY Safe, <1>1, PTL

(***************************************************************************)
(* No message is missed                                                    *)
(***************************************************************************)

\* What the theorem assumes of the callers: no two readers that may sleep ask for the same ID. Those of
\* msgsvr are a thread for each queue, which asks for the ID of its process (client_input.c:32, 341,
\* client_events.c:174, client_service.c:119); the others pass IPC_NOWAIT. With two for one ID,
\* CollapseWaiting takes the other one off the list while it sleeps.
DisjointWaits ==
  \A r, q \in Readers \ Impatient : r # q => Waits[r] \cap Waits[q] \subseteq {AnyID}

\* Who sleeps is not impatient.
Patient == \A r \in Readers : pc[r] \in {"asleep", "woken"} => r \notin Impatient

\* No step puts to sleep who passed MSGQUE_NOWAIT.
LEMMA NextPatient == Inv /\ Patient /\ [Next]_vars => Patient'
<1> SUFFICES ASSUME Inv, Patient, [Next]_vars, NEW q \in Readers, pc'[q] \in {"asleep", "woken"}
             PROVE  q \notin Impatient
  BY DEF Patient
<1>1. /\ pc \in [Threads -> {"idle", "sending", "scanning", "asleep", "woken", "stuck"}]
      /\ q \in Threads /\ q \notin Writers
  BY QueueAssumption DEF Inv, CallOK, Threads
<1>2. pc[q] \in {"asleep", "woken"} \/ q \notin Impatient
  <2>1. ASSUME NEW w \in Writers, WriterNext(w) PROVE pc'[q] = pc[q]
    BY <1>1, <2>1 DEF WriterNext, EnqueMsg, Store, Overwrite, GiveUp, Sent
  <2>2. ASSUME NEW r \in Readers, ReaderNext(r) \/ Interrupt(r)
        PROVE  pc[q] \in {"asleep", "woken"} \/ q \notin Impatient
    <3>1. CASE r = q
      BY <1>1, <2>2, <3>1
         DEF ReaderNext, DequeMsg, Receive, ReceiveTooBig, ReceiveNothing, Sleep, NoPlace, WakeUp, Interrupt, Return
    <3>2. CASE r # q
      <4>1. pc'[q] = pc[q]
        BY <1>1, <2>2, <3>2
           DEF ReaderNext, DequeMsg, Receive, ReceiveTooBig, ReceiveNothing, Sleep, NoPlace, WakeUp, Interrupt, Return
      <4> QED BY <4>1
    <3> QED BY <3>1, <3>2
  <2>3. CASE Expire \/ UNCHANGED vars
    BY <2>3 DEF Expire, vars
  <2> QED BY <2>1, <2>2, <2>3 DEF Next
<1> QED BY <1>2 DEF Patient

\* r is on the list, with the ID that it asks for.
IsListed(r) == \E n \in 1..Len(waiters) : waiters[n].me = r /\ waiters[n].msg = asked[r]

\* A reader that sleeps is on the list, or its wake is under way.
Listed == \A r \in Readers : pc[r] = "asleep" /\ ~event[r] => IsListed(r)

\* Whatever message there is for r, its time has passed.
NothingFor(r) == \A i \in DOMAIN recs : Wanted(r, recs[i]) => recs[i].old

\* What is said of the readers that sleep.
Missing == Listed /\ NoMissedMessage

\* Nobody sleeps at first.
LEMMA InitMissing == Init => Missing
BY DEF Init, Missing, Listed, NoMissedMessage, Threads

\* Of a reader that sleeps after a message was stored: nothing for it was in the ring, nor is now.
LEMMA StoreMissing ==
  ASSUME Inv, Missing, NEW w \in Writers, Store(w) PROVE Missing'
<1> DEFINE m == msg[w]
<1>1. /\ m \in Messages /\ recs' = recs \o Stored(m) /\ WakeWaiters(m.id) /\ asked' = asked
      /\ \A r \in Readers : pc'[r] = pc[r]
  <2>1. w \notin Readers
    BY QueueAssumption
  <2> QED BY <2>1 DEF Inv, CallOK, Store, Sent
<1>2. recs \in Seq(Records) /\ top \in 0..Size /\ DOMAIN recs = 1..Len(recs)
  BY DEF Inv, RingOK
<1>3. recs' \in Seq(Records) /\ DOMAIN recs' = 1..Len(recs')
  <2>1. RingOK'
    BY StoreInv DEF Inv
  <2> QED BY <2>1 DEF RingOK
<1>4. /\ \A r \in Readers : event[r] => event'[r]
      /\ \A i \in 1..Len(waiters) : WaitsFor(waiters[i], m.id) => event'[waiters[i].me]
      /\ \A i \in 1..Len(waiters) : ~WaitsFor(waiters[i], m.id) =>
           \E n \in 1..Len(waiters') : waiters'[n] = waiters[i]
  BY <1>1, WakeIs DEF Inv
<1>5. Record(m).msg = m
  BY <1>1, <1>2, RecordsAre
<1> HIDE DEF m
<1>6. ASSUME NEW r \in Readers, pc'[r] = "asleep", ~event'[r]
      PROVE  /\ IsListed(r)'
             /\ NothingFor(r)'
  <2>1. pc[r] = "asleep" /\ ~event[r]
    BY <1>1, <1>4, <1>6
  <2>2. PICK n \in 1..Len(waiters) : waiters[n].me = r /\ waiters[n].msg = asked[r]
    BY <2>1 DEF Missing, Listed, IsListed
  <2>3. ~WaitsFor(waiters[n], m.id)
    BY <1>4, <1>6, <2>2
  <2>4. IsListed(r)'
    BY <1>1, <1>4, <2>2, <2>3 DEF IsListed
  <2>5. asked[r] \notin {AnyID, m.id}
    BY <2>2, <2>3 DEF WaitsFor
  <2>6. ASSUME NEW i \in DOMAIN recs', ~recs'[i].read, asked[r] \in {AnyID, recs'[i].msg.id}
        PROVE  recs'[i].old
    <3>1. i \in 1..Len(recs')
      BY <1>3
    <3>2. (i \in 1..Len(recs) /\ recs'[i] = recs[i]) \/ recs'[i] = Record(m)
      BY <1>1, <1>2, <2>6, <3>1, StoredUnread, ZenonT(60)
    <3>3. recs'[i] # Record(m)
      BY <1>5, <2>5, <2>6
    <3>4. i \in DOMAIN recs /\ Wanted(r, recs[i])
      BY <1>2, <2>6, <3>2, <3>3 DEF Wanted
    <3> QED BY <2>1, <3>2, <3>3, <3>4 DEF Missing, NoMissedMessage
  <2>7. NothingFor(r)'
    BY <1>1, <2>6 DEF Wanted, NothingFor
  <2> QED BY <2>4, <2>7
<1> QED BY <1>6 DEF Missing, Listed, NoMissedMessage, NothingFor

\* Of a reader that sleeps after a scan, its own or that of another.
LEMMA ScansMissing ==
  ASSUME DisjointWaits, Inv, Patient, Missing, NEW q \in Readers,
         \/ Receive(q) \/ ReceiveTooBig(q) \/ ReceiveNothing(q) \/ Sleep(q) \/ NoPlace(q)
  PROVE  Missing'
<1>1. /\ RingOK' /\ recs' \in Seq(Records)
      /\ IF Receive(q) THEN Match(q) \in 1..Len(recs) /\ Derived(Marked(Match(q)), recs')
         ELSE Derived(Marked(0), recs')
  BY ScansRing DEF Inv
<1>2. /\ DOMAIN recs = 1..Len(recs) /\ DOMAIN recs' = 1..Len(recs') /\ Len(recs) \in Nat
      /\ recs \in Seq(Records) /\ RingOK
  BY <1>1 DEF Inv, RingOK
<1>3. PICK n \in Nat : Derived(Marked(n), recs')
  BY <1>1, <1>2
<1>4. ASSUME NEW k \in 1..Len(recs'), ~recs'[k].read
      PROVE  \E i \in DOMAIN recs : ~recs[i].read /\ ~recs[i].old /\ recs[i].msg = recs'[k].msg
  BY <1>1, <1>2, <1>3, <1>4, UnreadOf, SMTT(30)
<1>5. asked' = asked /\ event' = event /\ pc[q] \in {"scanning", "woken"}
  BY DEF Receive, ReceiveTooBig, ReceiveNothing, Sleep, NoPlace, Scans
<1>6. waiters \in Seq(Waiting) /\ Len(waiters) \in Nat /\ asked[q] \in Waits[q]
  BY <1>5 DEF Inv, WaitOK, CallOK
<1>7. pc \in [Threads -> {"idle", "sending", "scanning", "asleep", "woken", "stuck"}] /\ q \in Threads
  BY DEF Inv, CallOK, Threads
<1>8. ASSUME NEW r \in Readers, pc'[r] = "asleep", ~event'[r]
      PROVE  /\ IsListed(r)'
             /\ NothingFor(r)'
  <2>1. ASSUME \A i \in DOMAIN recs : ~recs[i].old => ~Wanted(r, recs[i])
        PROVE  NothingFor(r)'
    <3>1. ASSUME NEW i \in DOMAIN recs', ~recs'[i].read, asked[r] \in {AnyID, recs'[i].msg.id}
          PROVE  FALSE
      <4>1. PICK j \in DOMAIN recs : ~recs[j].read /\ ~recs[j].old /\ recs[j].msg = recs'[i].msg
        BY <1>2, <1>4, <3>1
      <4> QED BY <2>1, <3>1, <4>1 DEF Wanted
    <3> QED BY <1>5, <3>1 DEF Wanted, NothingFor
  <2>2. CASE r = q
    <3>1. Sleep(q)
      BY <1>7, <1>8, <2>2 DEF Receive, ReceiveTooBig, ReceiveNothing, NoPlace, Return
    <3>2. Match(r) = 0 /\ waiters' = Append(waiters, [me |-> r, msg |-> asked[r]])
      BY <2>2, <3>1 DEF Sleep
    <3>3. \A i \in DOMAIN recs : ~recs[i].old => ~Wanted(r, recs[i])
      BY <1>2, <3>2, MatchIs
    <3>4. /\ waiters'[Len(waiters')].me = r /\ waiters'[Len(waiters')].msg = asked[r]
          /\ Len(waiters') \in 1..Len(waiters')
      BY <1>6, <3>2
    <3> QED BY <1>5, <2>1, <3>3, <3>4 DEF IsListed
  <2>3. CASE r # q
    <3>1. pc[r] = "asleep" /\ ~event[r] /\ r \in Threads
      BY <1>5, <1>7, <1>8, <2>3 DEF Receive, ReceiveTooBig, ReceiveNothing, Sleep, NoPlace, Return, Threads
    <3>2. PICK k \in 1..Len(waiters) : waiters[k].me = r /\ waiters[k].msg = asked[r]
      BY <3>1 DEF Missing, Listed, IsListed
    <3>3. pc[q] = "woken" => asked[r] # asked[q] \/ asked[q] = AnyID
      <4>1. asked[r] \in Waits[r] /\ r \notin Impatient
        BY <3>1 DEF Inv, CallOK, Patient
      <4>2. pc[q] = "woken" => q \notin Impatient
        BY DEF Patient
      <4> QED BY <1>6, <2>3, <4>1, <4>2 DEF DisjointWaits
    <3>4. \E i \in 1..Len(waiters') : waiters'[i] = waiters[k]
      <4>1. CASE pc[q] = "woken" /\ waiters' = Collapse(asked[q])
        BY <3>2, <3>3, <4>1, CollapseIs DEF Inv
      <4>2. CASE waiters' = waiters
        BY <4>2
      <4>3. CASE Sleep(q)
        BY <1>6, <4>3 DEF Sleep
      <4> QED BY <4>1, <4>2, <4>3 DEF Receive, ReceiveTooBig, ReceiveNothing, NoPlace, Scans
    <3>5. \A i \in DOMAIN recs : ~recs[i].old => ~Wanted(r, recs[i])
      BY <3>1 DEF Missing, NoMissedMessage
    <3> QED BY <1>5, <2>1, <3>2, <3>4, <3>5 DEF IsListed
  <2> QED BY <2>2, <2>3
<1> QED BY <1>8 DEF Missing, Listed, NoMissedMessage, NothingFor

\* A message whose time passes is no message to wake up for.
LEMMA ExpireMissing ==
  ASSUME Inv, Missing, Expire PROVE Missing'
<1>1. PICK i \in 1..Len(recs) :
        /\ recs' \in Seq(Records) /\ Len(recs') = Len(recs)
        /\ \A j \in 1..Len(recs) : /\ recs'[j].read = recs[j].read /\ recs'[j].msg = recs[j].msg
                                   /\ IF j = i THEN recs'[j].old ELSE recs'[j] = recs[j]
  BY ExpireIs DEF Inv
<1>2. DOMAIN recs = 1..Len(recs) /\ DOMAIN recs' = 1..Len(recs)
  BY <1>1 DEF Inv, RingOK
<1>3. UNCHANGED <<waiters, event, pc, asked>>
  BY DEF Expire
<1>4. Listed'
  BY <1>3 DEF Missing, Listed, IsListed
<1>5. NoMissedMessage'
  BY <1>1, <1>2, <1>3 DEF Missing, NoMissedMessage, Wanted
<1> QED BY <1>4, <1>5 DEF Missing

\* Steps that change neither the ring nor the list, and put nobody to sleep.
LEMMA OthersMissing ==
  ASSUME Inv, Missing,
         \/ \E w \in Writers : EnqueMsg(w) \/ Overwrite(w) \/ GiveUp(w)
         \/ \E r \in Readers : DequeMsg(r) \/ WakeUp(r) \/ Interrupt(r)
         \/ UNCHANGED vars
  PROVE  Missing'
<1>1. recs' = recs /\ waiters' = waiters
  BY DEF EnqueMsg, Overwrite, GiveUp, DequeMsg, WakeUp, Interrupt, vars, ring
<1>2. \A r \in Readers : pc'[r] = "asleep" /\ ~event'[r] =>
        pc[r] = "asleep" /\ ~event[r] /\ asked'[r] = asked[r]
  <2>1. /\ pc \in [Threads -> {"idle", "sending", "scanning", "asleep", "woken", "stuck"}]
        /\ event \in [Readers -> BOOLEAN] /\ asked \in [Readers -> IDs \cup {AnyID}]
        /\ \A r \in Readers : r \in Threads /\ r \notin Writers
    BY QueueAssumption DEF Inv, CallOK, WaitOK, Threads
  <2>2. ASSUME NEW w \in Writers, EnqueMsg(w) \/ Overwrite(w) \/ GiveUp(w)
        PROVE  \A r \in Readers : pc'[r] = pc[r] /\ event'[r] = event[r] /\ asked'[r] = asked[r]
    BY <2>1, <2>2 DEF EnqueMsg, Overwrite, GiveUp, Sent
  <2>3. ASSUME NEW q \in Readers, DequeMsg(q) \/ WakeUp(q) \/ Interrupt(q)
        PROVE  \A r \in Readers : pc'[r] = "asleep" /\ ~event'[r] =>
                 pc[r] = "asleep" /\ ~event[r] /\ asked'[r] = asked[r]
    <3>1. CASE DequeMsg(q)
      BY <2>1, <3>1 DEF DequeMsg
    <3>2. CASE WakeUp(q)
      BY <2>1, <3>2 DEF WakeUp
    <3>3. CASE Interrupt(q)
      BY <2>1, <3>3 DEF Interrupt
    <3> QED BY <2>3, <3>1, <3>2, <3>3
  <2> QED BY <2>2, <2>3 DEF vars
<1>3. Listed'
  BY <1>1, <1>2 DEF Missing, Listed, IsListed
<1>4. NoMissedMessage'
  BY <1>1, <1>2 DEF Missing, NoMissedMessage, Wanted
<1> QED BY <1>3, <1>4 DEF Missing

\* Every step keeps Missing.
LEMMA NextMissing == ASSUME DisjointWaits PROVE Inv /\ Patient /\ Missing /\ [Next]_vars => Missing'
<1> SUFFICES ASSUME Inv, Patient, Missing, [Next]_vars PROVE Missing'
  OBVIOUS
<1>1. ASSUME NEW w \in Writers, WriterNext(w) PROVE Missing'
  BY <1>1, StoreMissing, OthersMissing DEF WriterNext
<1>2. ASSUME NEW r \in Readers, ReaderNext(r) \/ Interrupt(r) PROVE Missing'
  BY <1>2, ScansMissing, OthersMissing DEF ReaderNext
<1> QED BY <1>1, <1>2, ExpireMissing, OthersMissing DEF Next

\* Where no two that may sleep ask for the same ID, a reader sleeps, with no wake under way, only while there is
\* no message in time for it: the scan of DequeMsgEx that finds nothing and the entry in the list are one
\* under the section, and ScanForWaiting wakes whom it takes off the list.
THEOREM NeverMissed == ASSUME DisjointWaits PROVE Spec => []NoMissedMessage
<1>1. Inv /\ Patient /\ Missing /\ [Next]_vars => Missing'
  BY NextMissing
<1>2. Missing => NoMissedMessage
  BY DEF Missing
<1>3. Init => Patient
  BY DEF Init, Patient, Threads
<1> QED BY InitMissing, Safe, NextPatient, <1>1, <1>2, <1>3, PTL DEF Spec

(***************************************************************************)
(* Messages of one size                                                    *)
(***************************************************************************)

\* The multiples of a length.
Steps(l) == {k * l : k \in Nat}

\* Two different multiples of a length are as far apart as it is.
LEMMA StepsAre ==
  ASSUME NEW l \in Nat, l > 0
  PROVE  /\ 0 \in Steps(l) /\ Steps(l) \subseteq Nat
         /\ \A a \in Steps(l) : a + l \in Steps(l)
         /\ \A a, b \in Steps(l) : a < b => a + l <= b
<1>1. 0 \in Steps(l)
  <2>1. 0 * l = 0
    OBVIOUS
  <2> QED BY <2>1 DEF Steps
<1>2. Steps(l) \subseteq Nat
  BY DEF Steps
<1>3. ASSUME NEW a \in Steps(l) PROVE a + l \in Steps(l)
  <2>1. PICK k \in Nat : a = k * l
    BY DEF Steps
  <2>2. (k + 1) * l = k * l + l
    OBVIOUS
  <2> QED BY <2>1, <2>2 DEF Steps
<1>4. ASSUME NEW a \in Steps(l), NEW b \in Steps(l), a < b PROVE a + l <= b
  <2>1. PICK k \in Nat : a = k * l
    BY DEF Steps
  <2>2. PICK h \in Nat : b = h * l
    BY DEF Steps
  <2>3. \A d \in Nat : (k + 1 + d) * l = k * l + l + d * l /\ d * l >= 0
    OBVIOUS
  <2>4. \A d \in Nat : k = h + d => k * l = h * l + d * l /\ d * l >= 0
    OBVIOUS
  <2>5. k < h
    <3>1. CASE k >= h
      <4>1. k - h \in Nat /\ k = h + (k - h)
        BY <3>1
      <4>2. a = b + (k - h) * l /\ (k - h) * l >= 0
        BY <2>1, <2>2, <2>4, <4>1
      <4>3. (k - h) * l \in Nat /\ a \in Nat /\ b \in Nat
        BY <1>2, <4>1
      <4> QED BY <1>4, <4>2, <4>3
    <3> QED BY <3>1
  <2>6. h - k - 1 \in Nat /\ k + 1 + (h - k - 1) = h
    BY <2>5
  <2>7. b = a + l + (h - k - 1) * l /\ (h - k - 1) * l >= 0
    BY <2>1, <2>2, <2>3, <2>6
  <2>8. (h - k - 1) * l \in Nat /\ a \in Nat /\ b \in Nat
    BY <1>2, <2>6
  <2> QED BY <2>7, <2>8
<1> QED BY <1>1, <1>2, <1>3, <1>4

\* From the place a round the ring to t, b is on the way.
Between(a, b, t) == IF a <= t THEN a <= b /\ b < t ELSE a <= b \/ b < t

\* The records are where records of the length l would be, in their order round the ring, and none is at
\* t, where the next one goes.
LaidOut(s, t, l) ==
  /\ t \in Steps(l) /\ t < Size - Header
  /\ \A i \in 1..Len(s) : /\ s[i].pos \in Steps(l) /\ s[i].pos < Size - Header
                          /\ ~s[i].read => s[i].len = l
  /\ \A i, j \in 1..Len(s) : i <= j => Between(s[i].pos, s[j].pos, t)

\* A scan leaves the ring laid out.
LEMMA DerivedLaid ==
  ASSUME RingOK, NEW l, LaidOut(recs, top, l), NEW n \in Nat, NEW w \in Seq(Records), Derived(Marked(n), w)
  PROVE  LaidOut(w, top, l)
<1>1. PICK o : DerivedBy(Marked(n), w, o)
  BY DEF Derived
<1>2. /\ Len(Marked(n)) = Len(recs)
      /\ \A i \in 1..Len(recs) :
           /\ Marked(n)[i].pos = recs[i].pos /\ Marked(n)[i].len = recs[i].len
           /\ IF recs[i].old \/ i = n THEN Marked(n)[i].read ELSE Marked(n)[i] = recs[i]
  BY MarkedIs DEF RingOK
<1>3. \A k \in 1..Len(w) : /\ o[k] \in 1..Len(recs) /\ w[k].pos = recs[o[k]].pos
                           /\ ~w[k].read => w[k].len = recs[o[k]].len /\ ~recs[o[k]].read
  BY <1>1, <1>2 DEF DerivedBy, Alike
<1>4. \A i, j \in 1..Len(w) : i <= j => o[i] <= o[j]
  BY <1>1, <1>3 DEF DerivedBy
<1>5. ASSUME NEW i \in 1..Len(w), NEW j \in 1..Len(w), i <= j PROVE Between(w[i].pos, w[j].pos, top)
  BY <1>3, <1>4, <1>5 DEF LaidOut
<1> HIDE DEF Between
<1> QED BY <1>3, <1>5 DEF LaidOut

\* Two extents from different multiples do not meet.
LEMMA Apart ==
  ASSUME NEW l \in Nat, l > 0, NEW a \in Steps(l), NEW b \in Steps(l), a # b,
         NEW c \in Int, NEW d \in Int, c < l, d < l
  PROVE  (a..(a + c)) \cap (b..(b + d)) = {}
<1>1. a \in Nat /\ b \in Nat /\ (a + l <= b \/ b + l <= a)
  BY StepsAre
<1> QED BY <1>1

\* What is on the way stays so when its end moves on.
LEMMA Further ==
  ASSUME NEW a \in Nat, NEW b \in Nat, NEW t \in Nat, NEW l \in Nat, l > 0, Between(a, b, t),
         a < t \/ t + l < a, b < t \/ t + l < b
  PROVE  Between(a, b, t + l)
<1>1. CASE a < t
  <2>1. a <= b /\ b < t
    BY <1>1 DEF Between
  <2>2. a <= t + l /\ b < t + l
    BY <1>1, <2>1
  <2> QED BY <2>1, <2>2 DEF Between
<1>2. CASE t + l < a
  <2>1. ~(a <= t) /\ ~(a <= t + l)
    BY <1>2
  <2>2. a <= b \/ b < t
    BY <2>1 DEF Between
  <2>3. a <= b \/ b < t + l
    BY <2>2
  <2> QED BY <2>1, <2>3 DEF Between
<1> QED BY <1>1, <1>2

\* And when its end goes to l, before all that is on it.
LEMMA Nearer ==
  ASSUME NEW a \in Nat, NEW b \in Nat, NEW t \in Nat, NEW l \in Nat, Between(a, b, t), l < a, a < t
  PROVE  Between(a, b, l)
<1>1. a <= b
  BY DEF Between
<1> QED BY <1>1 DEF Between

\* What is not between two places is beside them.
LEMMA Beside ==
  ASSUME NEW p \in Nat, NEW t \in Nat, NEW l \in Nat, NEW b \in Nat, t + l < b, b <= p \/ p < t
  PROVE  p < t \/ t + l < p
OBVIOUS

\* Where EnqueMsgEx lets a message go, when all have its length: Bottom is not there, and nothing else is.
LEMMA Room ==
  ASSUME RingOK, NEW m \in Messages, Accepts(m), LaidOut(recs, top, Length(m))
  PROVE  /\ NewTop(m) \in Steps(Length(m)) /\ NewTop(m) < Size - Header
         /\ \A i \in 1..Len(recs) : recs[i].pos # top /\ recs[i].pos # Position(m)
         /\ \A i, j \in 1..Len(recs) : i <= j => Between(recs[i].pos, recs[j].pos, NewTop(m))
         /\ \A i \in 1..Len(recs) : Between(recs[i].pos, Position(m), NewTop(m))
         /\ Between(Position(m), Position(m), NewTop(m))
         /\ PastEnd(m) => /\ \A i \in 1..Len(recs) : Between(recs[i].pos, top, NewTop(m))
                          /\ Between(top, top, NewTop(m)) /\ Between(top, 0, NewTop(m)) /\ Position(m) = 0
         /\ ~PastEnd(m) => Position(m) = top
<1> DEFINE l == Length(m)
           B == Bottom
           H == Header
           t == top
<1>1. /\ m.size \in Nat /\ l \in Nat /\ l = m.size + H /\ H \in Nat /\ H > 0 /\ Size \in Nat
      /\ 4 * l <= Size /\ l > 0 /\ l < Size
  BY MessageIs
<1>2. /\ 0 \in Steps(l) /\ Steps(l) \subseteq Nat
      /\ \A a \in Steps(l) : a + l \in Steps(l)
      /\ \A a, b \in Steps(l) : a < b => a + l <= b
  BY <1>1, StepsAre
<1>3. /\ AtEnd(m) <=> t + l = Size
      /\ PastEnd(m) <=> ~AtEnd(m) /\ t + l >= Size - H
      /\ NewTop(m) = IF AtEnd(m) THEN 0 ELSE Position(m) + l
      /\ Position(m) = IF PastEnd(m) THEN 0 ELSE t
  BY DEF AtEnd, PastEnd, End, NewTop, Position
<1>4. /\ ~(~AtEnd(m) /\ ~PastEnd(m) /\ t < B /\ B < t + l)
      /\ ~(PastEnd(m) /\ B <= m.size) /\ NewTop(m) # B
  BY DEF Accepts, NoRoom, Full, End
<1>5. /\ t \in Steps(l) /\ t < Size - H
      /\ \A i \in 1..Len(recs) : recs[i].pos \in Steps(l) /\ recs[i].pos < Size - H
      /\ \A i, j \in 1..Len(recs) : i <= j => Between(recs[i].pos, recs[j].pos, t)
  BY DEF LaidOut
<1>6. /\ B \in Steps(l) /\ B < Size - H
      /\ \A i \in 1..Len(recs) : Between(B, recs[i].pos, t)
  <2>1. CASE recs = <<>>
    <3>1. Len(recs) = 0 /\ B = t
      BY <2>1 DEF Bottom
    <3> QED BY <1>5, <3>1
  <2>2. CASE recs # <<>>
    <3>1. B = recs[1].pos
      BY <2>2 DEF Bottom
    <3>2. 1 \in 1..Len(recs) /\ \A i \in 1..Len(recs) : 1 <= i
      BY <2>2 DEF RingOK
    <3> HIDE DEF Between, B
    <3> QED BY <1>5, <3>1, <3>2
  <2> QED BY <2>1, <2>2
<1> HIDE DEF l, B, H, t
<1>7. t \in Nat /\ B \in Nat /\ (t < B => t + l <= B)
  BY <1>2, <1>5, <1>6
<1>8. \A i \in 1..Len(recs) : recs[i].pos \in Nat /\ recs[i].pos # t
  BY <1>2, <1>5 DEF Between
\* Unless the record follows the one before it, the ring is not wrapped.
<1>9. AtEnd(m) \/ PastEnd(m) => B <= t
  BY <1>1, <1>3, <1>6, <1>7, SMTT(30)
<1>10. B <= t => \A i \in 1..Len(recs) : B <= recs[i].pos /\ recs[i].pos < t
  BY <1>6 DEF Between
<1>11. t < B => \A i \in 1..Len(recs) : B <= recs[i].pos \/ recs[i].pos < t
  BY <1>6, <1>7 DEF Between
<1>12. CASE AtEnd(m)
  <2>1. ~PastEnd(m) /\ NewTop(m) = 0 /\ Position(m) = t /\ B > 0 /\ B <= t /\ t > 0
    BY <1>1, <1>3, <1>4, <1>7, <1>9, <1>12
  <2>2. 0 < Size - H
    BY <1>1
  <2>3. \A i \in 1..Len(recs) : 0 < recs[i].pos /\ recs[i].pos < t /\ recs[i].pos \in Nat
    BY <1>7, <1>8, <1>10, <2>1
  <2>4. \A i, j \in 1..Len(recs) : i <= j => Between(recs[i].pos, recs[j].pos, 0)
    <3> SUFFICES ASSUME NEW i \in 1..Len(recs), NEW j \in 1..Len(recs), i <= j
                 PROVE  Between(recs[i].pos, recs[j].pos, 0)
      OBVIOUS
    <3> DEFINE a == recs[i].pos
               b == recs[j].pos
               z == 0
    <3>1. a \in Nat /\ b \in Nat /\ z \in Nat /\ Between(a, b, t) /\ z < a /\ a < t
      BY <1>5, <1>8, <2>3
    <3> HIDE DEF a, b, z
    <3>2. Between(a, b, z)
      BY <1>7, <3>1, Nearer
    <3> QED BY <3>2 DEF a, b, z
  <2>5. \A i \in 1..Len(recs) : Between(recs[i].pos, t, 0)
    BY <1>7, <2>3 DEF Between
  <2>6. Between(t, t, 0)
    BY <1>7, <2>1 DEF Between
  <2> HIDE DEF Between
  <2> QED BY <1>2, <1>8, <2>1, <2>2, <2>4, <2>5, <2>6 DEF l, H, t
<1>13. CASE PastEnd(m)
  <2>1. /\ NewTop(m) = l /\ Position(m) = 0 /\ B <= t /\ l # B /\ B > m.size
    <3>1. ~AtEnd(m) /\ Position(m) = 0 /\ NewTop(m) = Position(m) + l
      BY <1>3, <1>13
    <3>2. NewTop(m) = l
      BY <1>1, <3>1
    <3>3. B <= t /\ l # B
      BY <1>4, <1>9, <1>13, <3>2
    <3>4. B > m.size
      BY <1>1, <1>4, <1>7, <1>13
    <3> QED BY <3>1, <3>2, <3>3, <3>4
  <2>2. l < B /\ l < t
    <3>1. 0 < B
      BY <1>1, <1>7, <2>1
    <3>2. 0 + l <= B
      BY <1>2, <1>6, <3>1
    <3> QED BY <1>1, <1>7, <2>1, <3>2
  <2>3. l < Size - H /\ l \in Steps(l)
    <3>1. 0 + l \in Steps(l)
      BY <1>2
    <3> QED BY <1>1, <3>1
  <2>4. ASSUME NEW i \in 1..Len(recs)
        PROVE  l < recs[i].pos /\ recs[i].pos < t /\ recs[i].pos \in Nat
    <3> DEFINE a == recs[i].pos
    <3>1. a \in Nat /\ B <= a /\ a < t
      BY <1>8, <1>10, <2>1
    <3> HIDE DEF a
    <3>2. l < a /\ a < t
      BY <1>1, <1>7, <2>2, <3>1
    <3> QED BY <3>1, <3>2 DEF a
  <2>5. \A i, j \in 1..Len(recs) : i <= j => Between(recs[i].pos, recs[j].pos, l)
    <3> SUFFICES ASSUME NEW i \in 1..Len(recs), NEW j \in 1..Len(recs), i <= j
                 PROVE  Between(recs[i].pos, recs[j].pos, l)
      OBVIOUS
    <3> DEFINE a == recs[i].pos
               b == recs[j].pos
    <3>1. a \in Nat /\ b \in Nat /\ Between(a, b, t) /\ l < a /\ a < t
      BY <1>5, <2>4
    <3> HIDE DEF a, b
    <3>2. Between(a, b, l)
      BY <1>1, <1>7, <3>1, Nearer
    <3> QED BY <3>2 DEF a, b
  <2>6. \A i \in 1..Len(recs) : Between(recs[i].pos, t, l) /\ Between(recs[i].pos, 0, l)
    <3> SUFFICES ASSUME NEW i \in 1..Len(recs)
                 PROVE  Between(recs[i].pos, t, l) /\ Between(recs[i].pos, 0, l)
      OBVIOUS
    <3> DEFINE a == recs[i].pos
    <3>1. a \in Nat /\ l < a /\ a < t
      BY <2>4
    <3> HIDE DEF a
    <3>2. Between(a, t, l) /\ Between(a, 0, l)
      BY <1>1, <1>7, <3>1 DEF Between
    <3> QED BY <3>2 DEF a
  <2>7. Between(t, t, l) /\ Between(t, 0, l) /\ Between(0, 0, l)
    BY <1>1, <1>7, <2>2 DEF Between
  <2>8. \A i \in 1..Len(recs) : recs[i].pos # 0
    BY <1>1, <2>4
  <2> HIDE DEF Between
  <2> QED BY <1>8, <1>13, <2>1, <2>3, <2>5, <2>6, <2>7, <2>8 DEF l, H, t
<1>14. CASE ~AtEnd(m) /\ ~PastEnd(m)
  <2>1. /\ NewTop(m) = t + l /\ Position(m) = t /\ t + l # B /\ t + l < Size - H
    BY <1>1, <1>3, <1>4, <1>7, <1>14
  <2>2. t + l \in Steps(l)
    BY <1>2, <1>5
  <2>3. \A i \in 1..Len(recs) : recs[i].pos < t \/ t + l < recs[i].pos
    <3>1. CASE B <= t
      BY <1>10, <3>1
    <3>2. CASE t < B
      <4>1. t + l < B
        BY <1>1, <1>7, <2>1, <3>2
      <4>2. ASSUME NEW i \in 1..Len(recs) PROVE recs[i].pos < t \/ t + l < recs[i].pos
        <5>1. recs[i].pos \in Nat /\ (B <= recs[i].pos \/ recs[i].pos < t)
          BY <1>8, <1>11, <3>2
        <5> DEFINE p == recs[i].pos
        <5>2. p \in Nat /\ (B <= p \/ p < t)
          BY <5>1
        <5> HIDE DEF p
        <5>3. p < t \/ t + l < p
          BY <1>1, <1>7, <4>1, <5>2, Beside
        <5> QED BY <5>3 DEF p
      <4> QED BY <4>2
    <3> QED BY <1>7, <3>1, <3>2
  <2>4. \A i, j \in 1..Len(recs) : i <= j => Between(recs[i].pos, recs[j].pos, t + l)
    <3> SUFFICES ASSUME NEW i \in 1..Len(recs), NEW j \in 1..Len(recs), i <= j
                 PROVE  Between(recs[i].pos, recs[j].pos, t + l)
      OBVIOUS
    <3> DEFINE a == recs[i].pos
               b == recs[j].pos
    <3>1. a \in Nat /\ b \in Nat /\ Between(a, b, t) /\ (a < t \/ t + l < a) /\ (b < t \/ t + l < b)
      BY <1>5, <1>8, <2>3
    <3> HIDE DEF a, b
    <3>2. Between(a, b, t + l)
      BY <1>1, <1>7, <3>1, Further
    <3> QED BY <3>2 DEF a, b
  <2>5. \A i \in 1..Len(recs) : Between(recs[i].pos, t, t + l)
    <3> SUFFICES ASSUME NEW i \in 1..Len(recs) PROVE Between(recs[i].pos, t, t + l)
      OBVIOUS
    <3> DEFINE a == recs[i].pos
    <3>1. a \in Nat /\ (a < t \/ t + l < a)
      BY <1>8, <2>3
    <3> HIDE DEF a
    <3>2. Between(a, t, t + l)
      BY <1>1, <1>7, <3>1, SMTT(30) DEF Between
    <3> QED BY <3>2 DEF a
  <2>6. Between(t, t, t + l)
    BY <1>1, <1>7 DEF Between
  <2> HIDE DEF Between
  <2> QED BY <1>8, <1>14, <2>1, <2>2, <2>4, <2>5, <2>6 DEF l, H, t
<1> QED BY <1>12, <1>13, <1>14

\* One record more, where the ring goes on.
LEMMA LaidAppend ==
  ASSUME NEW s \in Seq(Records), NEW x \in Records, NEW t, NEW l, LaidOut(s, t, l),
         x.pos \in Steps(l), x.pos < Size - Header, ~x.read => x.len = l,
         Between(x.pos, x.pos, t), \A i \in 1..Len(s) : Between(s[i].pos, x.pos, t)
  PROVE  LaidOut(Append(s, x), t, l)
<1> DEFINE w == Append(s, x)
<1>1. /\ Len(w) = Len(s) + 1 /\ Len(s) \in Nat /\ w[Len(s) + 1] = x
      /\ \A i \in 1..Len(s) : w[i] = s[i]
  BY AppendIs
<1> HIDE DEF w
<1>2. \A i \in 1..Len(w) : i \in 1..Len(s) \/ i = Len(s) + 1
  BY <1>1
<1> HIDE DEF Between, Steps
<1>3. \A i \in 1..Len(w) : /\ w[i].pos \in Steps(l) /\ w[i].pos < Size - Header
                           /\ ~w[i].read => w[i].len = l
  BY <1>1, <1>2 DEF LaidOut
<1>4. ASSUME NEW i \in 1..Len(w), NEW j \in 1..Len(w), i <= j PROVE Between(w[i].pos, w[j].pos, t)
  <2>1. CASE j \in 1..Len(s)
    <3>1. i \in 1..Len(s)
      BY <1>1, <1>4, <2>1
    <3> QED BY <1>1, <1>4, <2>1, <3>1 DEF LaidOut
  <2>2. CASE j = Len(s) + 1
    BY <1>1, <1>2, <2>2
  <2> QED BY <1>2, <2>1, <2>2
<1>5. LaidOut(w, t, l)
  BY <1>3, <1>4 DEF LaidOut
<1> QED BY <1>5 DEF w

\* A message of the one length is stored over nothing, and leaves the ring laid out.
LEMMA StoreLaid ==
  ASSUME RingOK, NEW m \in Messages, Accepts(m), LaidOut(recs, top, Length(m))
  PROVE  ~Overwrites(m) /\ LaidOut(recs \o Stored(m), NewTop(m), Length(m))
<1> DEFINE l == Length(m)
<1>1. l \in Nat /\ l > 0
  BY MessageIs
<1>2. /\ recs \in Seq(Records) /\ top \in 0..Size /\ Len(recs) \in Nat
      /\ DOMAIN recs = 1..Len(recs)
  BY DEF RingOK
<1>3. /\ EndMark \in Records /\ EndMark.pos = top /\ EndMark.len = 0 /\ EndMark.read
      /\ Record(m) \in Records /\ Record(m).pos = Position(m) /\ Record(m).len = l /\ ~Record(m).read
  BY <1>2, RecordsAre
<1>4. /\ NewTop(m) \in Steps(l) /\ NewTop(m) < Size - Header
      /\ \A i \in 1..Len(recs) : recs[i].pos # top /\ recs[i].pos # Position(m)
      /\ \A i, j \in 1..Len(recs) : i <= j => Between(recs[i].pos, recs[j].pos, NewTop(m))
      /\ \A i \in 1..Len(recs) : Between(recs[i].pos, Position(m), NewTop(m))
      /\ Between(Position(m), Position(m), NewTop(m))
      /\ PastEnd(m) => /\ \A i \in 1..Len(recs) : Between(recs[i].pos, top, NewTop(m))
                       /\ Between(top, top, NewTop(m)) /\ Between(top, 0, NewTop(m)) /\ Position(m) = 0
      /\ ~PastEnd(m) => Position(m) = top
  BY Room
<1>5. /\ top \in Steps(l) /\ top < Size - Header
      /\ \A i \in 1..Len(recs) : /\ recs[i].pos \in Steps(l) /\ recs[i].pos < Size - Header
                                 /\ ~recs[i].read => recs[i].len = l
  BY DEF LaidOut
<1>6. Position(m) \in Steps(l) /\ Position(m) < Size - Header
  <2>1. 0 \in Steps(l) /\ 0 < Size - Header
    BY <1>1, MessageIs, StepsAre
  <2> QED BY <1>4, <1>5, <2>1
<1> HIDE DEF Between, Steps, l
<1>7. LaidOut(recs, NewTop(m), l)
  BY <1>4, <1>5 DEF LaidOut
<1> HIDE DEF Messages, EndMark, Record
<1>8. LaidOut(recs \o Stored(m), NewTop(m), l)
  <2>1. CASE PastEnd(m)
    <3> DEFINE s == Append(recs, EndMark)
    <3>1. LaidOut(s, NewTop(m), l)
      BY <1>2, <1>3, <1>4, <1>5, <1>7, <2>1, LaidAppend
    <3>2. /\ s \in Seq(Records) /\ Len(s) = Len(recs) + 1 /\ s[Len(recs) + 1] = EndMark
          /\ \A i \in 1..Len(recs) : s[i] = recs[i]
      BY <1>2, <1>3, AppendIs
    <3>3. recs \o Stored(m) = Append(s, Record(m))
      BY <1>2, <2>1, StoredIs
    <3> HIDE DEF s
    <3>4. \A i \in 1..Len(s) : Between(s[i].pos, Record(m).pos, NewTop(m))
      <4>1. \A i \in 1..Len(s) : i \in 1..Len(recs) \/ i = Len(recs) + 1
        BY <1>2, <3>2
      <4> QED BY <1>3, <1>4, <2>1, <3>2, <4>1
    <3>5. LaidOut(Append(s, Record(m)), NewTop(m), l)
      BY <1>3, <1>4, <1>6, <3>1, <3>2, <3>4, LaidAppend
    <3> QED BY <3>3, <3>5
  <2>2. CASE ~PastEnd(m)
    <3>1. recs \o Stored(m) = Append(recs, Record(m))
      BY <1>2, <2>2, StoredIs
    <3>2. LaidOut(Append(recs, Record(m)), NewTop(m), l)
      BY <1>2, <1>3, <1>4, <1>6, <1>7, LaidAppend
    <3> QED BY <3>1, <3>2
  <2> QED BY <2>1, <2>2
<1>9. ASSUME NEW i \in DOMAIN recs, NEW j \in DOMAIN Stored(m)
      PROVE  Extent(recs[i]) \cap Extent(Stored(m)[j]) = {}
  <2> DEFINE x == recs[i]
             y == Stored(m)[j]
             c == IF x.read THEN 0 ELSE x.len - 1
             d == IF y.read THEN 0 ELSE y.len - 1
  <2>1. (PastEnd(m) /\ y = EndMark) \/ y = Record(m)
    <3>1. CASE PastEnd(m)
      <4>1. Stored(m) = <<EndMark>> \o <<Record(m)>>
        BY <3>1 DEF Stored
      <4> QED BY <3>1, <4>1
    <3>2. CASE ~PastEnd(m)
      <4>1. Stored(m) = <<>> \o <<Record(m)>>
        BY <3>2 DEF Stored
      <4> QED BY <4>1
    <3> QED BY <3>1, <3>2
  <2>2. x.pos \in Steps(l) /\ (~x.read => x.len = l) /\ x.pos # top /\ x.pos # Position(m)
    BY <1>2, <1>4, <1>5
  <2>3. y.pos \in Steps(l) /\ (~y.read => y.len = l) /\ y.pos # x.pos
    BY <1>3, <1>5, <1>6, <2>1, <2>2
  <2>4. Extent(x) = x.pos .. (x.pos + c) /\ Extent(y) = y.pos .. (y.pos + d)
    BY DEF Extent
  <2>5. l \in Nat /\ l > 0
    BY <1>1 DEF l
  <2>6. c \in Int /\ c < l /\ d \in Int /\ d < l
    BY <2>2, <2>3, <2>5
  <2> HIDE DEF x, y, c, d
  <2>7. Extent(x) \cap Extent(y) = {}
    BY <2>2, <2>3, <2>4, <2>5, <2>6, Apart
  <2> QED BY <2>7 DEF x, y
<1> QED BY <1>8, <1>9 DEF Overwrites, l

\* All messages that are sent have one size.
OneSize == \A s, t \in sizes : s = t

\* Then the ring is laid out for it, and has not been broken.
Laid == OneSize => ~broken /\ \A u \in sizes : LaidOut(recs, top, u + Header)

\* The empty ring is laid out.
LEMMA InitLaid == Init => Laid
<1> SUFFICES ASSUME Init, NEW u \in sizes PROVE ~broken /\ LaidOut(recs, top, u + Header)
  BY DEF Laid, Init
<1> DEFINE l == u + Header
<1>1. ~broken /\ recs = <<>> /\ top = 0 /\ Len(recs) = 0 /\ sizes \in SizeSets
  BY DEF Init
<1>2. u \in Nat /\ 4 * l <= Size /\ Header \in Nat /\ Header > 0 /\ Size \in Nat
  BY <1>1, QueueAssumption
<1>3. l \in Nat /\ l > 0 /\ 0 < Size - Header
  BY <1>2
<1>4. 0 \in Steps(l)
  BY <1>3, StepsAre
<1> HIDE DEF l
<1>5. LaidOut(recs, top, l)
  BY <1>1, <1>3, <1>4 DEF LaidOut
<1> QED BY <1>1, <1>5 DEF l

\* A message that is sent has the one size.
LEMMA SentLaid ==
  ASSUME Inv, Laid, OneSize, NEW w \in Writers, pc[w] = "sending"
  PROVE  /\ msg[w] \in Messages /\ LaidOut(recs, top, Length(msg[w]))
         /\ \A u \in sizes : u + Header = Length(msg[w])
<1>1. msg[w] \in Messages /\ msg[w].size \in sizes
  BY DEF Inv, CallOK
<1>2. LaidOut(recs, top, msg[w].size + Header) /\ \A u \in sizes : u = msg[w].size
  BY <1>1 DEF Laid, OneSize
<1> QED BY <1>1, <1>2 DEF Length

\* A message is stored, over nothing.
LEMMA StoreOverLaid ==
  ASSUME Inv, Laid, NEW w \in Writers, Store(w) \/ Overwrite(w) PROVE Laid'
<1> SUFFICES ASSUME OneSize' PROVE (~broken)' /\ \A u \in sizes' : LaidOut(recs', top', u + Header)
  BY DEF Laid, LaidOut, Between, Steps
<1>1. pc[w] = "sending" /\ Accepts(msg[w]) /\ sizes' = sizes
  BY DEF Store, Overwrite, Sent
<1>2. OneSize
  BY <1>1 DEF OneSize
<1>3. /\ msg[w] \in Messages /\ LaidOut(recs, top, Length(msg[w]))
      /\ \A u \in sizes : u + Header = Length(msg[w])
  BY <1>1, <1>2, SentLaid
<1>4. ~Overwrites(msg[w]) /\ LaidOut(recs \o Stored(msg[w]), NewTop(msg[w]), Length(msg[w]))
  <2> HIDE DEF Messages
  <2> QED BY <1>1, <1>3, StoreLaid DEF Inv
<1>5. ~broken /\ recs' = recs \o Stored(msg[w]) /\ top' = NewTop(msg[w]) /\ broken' = broken
  BY <1>2, <1>4 DEF Store, Overwrite, Laid
<1> QED BY <1>1, <1>3, <1>4, <1>5

\* A scan keeps Laid.
LEMMA ScansLaid ==
  ASSUME Inv, Laid, NEW r \in Readers,
         \/ Receive(r) \/ ReceiveTooBig(r) \/ ReceiveNothing(r) \/ Sleep(r) \/ NoPlace(r)
  PROVE  Laid'
<1> SUFFICES ASSUME OneSize' PROVE (~broken)' /\ \A u \in sizes' : LaidOut(recs', top', u + Header)
  BY DEF Laid, LaidOut, Between, Steps
<1>1. UNCHANGED <<sizes, top, broken>>
  BY DEF Receive, ReceiveTooBig, ReceiveNothing, Sleep, NoPlace, Scans
<1>2. OneSize
  BY <1>1 DEF OneSize
<1>3. /\ RingOK /\ recs' \in Seq(Records)
      /\ IF Receive(r) THEN Match(r) \in 1..Len(recs) /\ Derived(Marked(Match(r)), recs')
         ELSE Derived(Marked(0), recs')
  BY ScansRing DEF Inv
<1>4. PICK n \in Nat : Derived(Marked(n), recs')
  <2>1. Len(recs) \in Nat
    BY <1>3 DEF RingOK
  <2> QED BY <1>3, <2>1
<1>5. ASSUME NEW u \in sizes PROVE LaidOut(recs', top, u + Header)
  BY <1>2, <1>3, <1>4, DerivedLaid DEF Laid
<1> QED BY <1>1, <1>2, <1>5 DEF Laid

\* All else leaves the records where they are.
LEMMA OthersLaid ==
  ASSUME Inv, Laid,
         \/ Expire
         \/ \E w \in Writers : EnqueMsg(w) \/ GiveUp(w)
         \/ \E r \in Readers : DequeMsg(r) \/ WakeUp(r) \/ Interrupt(r)
         \/ UNCHANGED vars
  PROVE  Laid'
<1>1. UNCHANGED <<sizes, top, broken>>
  BY DEF Expire, EnqueMsg, GiveUp, Sent, DequeMsg, WakeUp, Interrupt, vars, ring
<1>2. /\ Len(recs') = Len(recs)
      /\ \A j \in 1..Len(recs) : /\ recs'[j].pos = recs[j].pos /\ recs'[j].len = recs[j].len
                                 /\ recs'[j].read = recs[j].read
  <2>1. CASE Expire
    BY <2>1, ExpireIs DEF Inv
  <2>2. CASE ~Expire
    BY <2>2 DEF EnqueMsg, GiveUp, DequeMsg, WakeUp, Interrupt, vars, ring
  <2> QED BY <2>1, <2>2
<1>3. OneSize' => OneSize
  BY <1>1 DEF OneSize
<1>4. ASSUME NEW u \in sizes, LaidOut(recs, top, u + Header) PROVE LaidOut(recs', top, u + Header)
  <2> HIDE DEF Between, Steps
  <2> QED BY <1>2, <1>4 DEF LaidOut
<1>5. OneSize' => (~broken)' /\ \A u \in sizes' : LaidOut(recs', top', u + Header)
  BY <1>1, <1>3, <1>4 DEF Laid
<1> QED BY <1>5 DEF Laid, LaidOut, Between, Steps

\* Every step keeps Laid.
LEMMA NextLaid == Inv /\ Laid /\ [Next]_vars => Laid'
<1> SUFFICES ASSUME Inv, Laid, [Next]_vars PROVE Laid'
  OBVIOUS
<1>1. ASSUME NEW w \in Writers, WriterNext(w) PROVE Laid'
  BY <1>1, StoreOverLaid, OthersLaid DEF WriterNext
<1>2. ASSUME NEW r \in Readers, ReaderNext(r) \/ Interrupt(r) PROVE Laid'
  BY <1>2, ScansLaid, OthersLaid DEF ReaderNext
<1> QED BY <1>1, <1>2, OthersLaid DEF Next

\* When all messages are of one size, whatever it is and whatever the size of the ring, EnqueMsgEx never
\* stores one over a record that is still to be read: its three ways to find out whether there is room
\* agree then.
THEOREM OneSizeNeverBreaks == Spec => []OneSizeIsSafe
<1>1. Inv /\ Laid /\ [Next]_vars => Laid'
  BY NextLaid
<1>2. Laid => OneSizeIsSafe
  BY DEF Laid, OneSizeIsSafe, OneSize
<1> QED BY InitLaid, Safe, <1>1, <1>2, PTL DEF Spec

(***************************************************************************)
(* The queue is a channel                                                  *)
(***************************************************************************)

\* A record holds a message that has not been read and whose time has not passed.
IsOpen(x) == ~x.read /\ ~x.old

\* Where those are in s, and how many.
Open(s) == {i \in DOMAIN s : ~s[i].read /\ ~s[i].old}
Number(s) == Cardinality(Open(s))

\* Their messages, in their order.
Held(s) == LET open == Open(s) IN [n \in 1..Cardinality(open) |-> s[Nth(open, n)].msg]

\* e has where they are, N of them.
OpenAre(s, N, e) ==
  /\ N \in Nat
  /\ \A n \in 1..N : e[n] \in 1..Len(s) /\ IsOpen(s[e[n]])
  /\ \A n, p \in 1..N : n < p => e[n] < e[p]
  /\ \A i \in 1..Len(s) : IsOpen(s[i]) => \E n \in 1..N : e[n] = i

\* Unread is what the ring holds.
LEMMA UnreadIs == Unread = Held(recs) /\ Unread' = Held(recs')
BY DEF Unread, Held, Open

\* The places of open records.
LEMMA OpenIs ==
  ASSUME NEW s \in Seq(Records)
  PROVE  /\ Len(s) \in Nat /\ Open(s) \in SUBSET (1..Len(s))
         /\ \A i \in 1..Len(s) : i \in Open(s) <=> IsOpen(s[i])
BY DEF Open, IsOpen

\* There is a count of the open records, and it gives what the sequence holds.
LEMMA HeldIs ==
  ASSUME NEW s \in Seq(Records)
  PROVE  \E e : /\ OpenAre(s, Number(s), e)
                /\ Held(s) = [n \in 1..Number(s) |-> s[e[n]].msg]
<1> DEFINE K == Open(s)
           C == Number(s)
           e == [n \in 1..C |-> Nth(K, n)]
<1>1. /\ Len(s) \in Nat /\ K \in SUBSET (1..Len(s))
      /\ \A i \in 1..Len(s) : i \in K <=> IsOpen(s[i])
  BY OpenIs
<1> HIDE DEF K
<1>2. /\ C \in Nat
      /\ \A n \in 1..C : Nth(K, n) \in K
      /\ \A n, p \in 1..C : n < p => Nth(K, n) < Nth(K, p)
      /\ \A k \in K : \E n \in 1..C : Nth(K, n) = k
  <2>1. C = Cardinality(K)
    BY DEF K, Number
  <2> HIDE DEF C
  <2> QED BY <1>1, <2>1, NthIs
<1>3. Held(s) = [n \in 1..C |-> s[Nth(K, n)].msg]
  BY DEF Held, K, Number
<1> HIDE DEF C
<1>4. OpenAre(s, C, e)
  BY <1>1, <1>2 DEF OpenAre
<1>5. Held(s) = [n \in 1..C |-> s[e[n]].msg]
  BY <1>3
<1> HIDE DEF e
<1> QED BY <1>4, <1>5 DEF C

\* Every count of them does.
LEMMA HeldOnly ==
  ASSUME NEW s \in Seq(Records), NEW N, NEW e, OpenAre(s, N, e)
  PROVE  Held(s) = [n \in 1..N |-> s[e[n]].msg]
<1> DEFINE K == Open(s)
<1>1. /\ Len(s) \in Nat /\ K \in SUBSET (1..Len(s))
      /\ \A i \in 1..Len(s) : i \in K <=> IsOpen(s[i])
  BY OpenIs
<1>2. Held(s) = [n \in 1..Cardinality(K) |-> s[Nth(K, n)].msg]
  BY DEF Held
<1> HIDE DEF K
<1>3. N \in Nat /\ Counts(e, N, K)
  BY <1>1 DEF OpenAre, Counts
<1>4. N = Cardinality(K) /\ \A n \in 1..N : e[n] = Nth(K, n)
  BY <1>1, <1>3, NthOnly
<1> QED BY <1>2, <1>4

\* What a scan passes keeps its messages.
LEMMA DerivedHeld ==
  ASSUME NEW s \in Seq(Records), NEW w \in Seq(Records), Derived(s, w)
  PROVE  Held(w) = Held(s)
<1>1. PICK o : DerivedBy(s, w, o)
  BY DEF Derived
<1> DEFINE N == Number(w)
<1>2. PICK f : OpenAre(w, N, f) /\ Held(w) = [n \in 1..N |-> w[f[n]].msg]
  BY HeldIs
<1> HIDE DEF N
<1> DEFINE e == [n \in 1..N |-> o[f[n]]]
<1>3. \A k \in 1..Len(w) : o[k] \in 1..Len(s) /\ (IsOpen(w[k]) <=> IsOpen(s[o[k]])) /\ w[k].msg = s[o[k]].msg
  BY <1>1 DEF DerivedBy, Alike, IsOpen
<1>4. \A n \in 1..N : f[n] \in 1..Len(w) /\ IsOpen(w[f[n]])
  BY <1>2 DEF OpenAre
<1>5. OpenAre(s, N, e)
  <2>1. \A n \in 1..N : e[n] \in 1..Len(s) /\ IsOpen(s[e[n]])
    BY <1>3, <1>4
  <2>2. \A n, p \in 1..N : n < p => e[n] < e[p]
    BY <1>1, <1>2, <1>4 DEF DerivedBy, OpenAre
  <2>3. ASSUME NEW i \in 1..Len(s), IsOpen(s[i]) PROVE \E n \in 1..N : e[n] = i
    <3>1. PICK k \in 1..Len(w) : o[k] = i
      BY <1>1, <2>3 DEF DerivedBy, IsOpen
    <3>2. PICK n \in 1..N : f[n] = k
      BY <1>2, <1>3, <2>3, <3>1 DEF OpenAre
    <3> QED BY <3>1, <3>2
  <2>4. N \in Nat
    BY <1>2 DEF OpenAre
  <2> HIDE DEF e
  <2> QED BY <2>1, <2>2, <2>3, <2>4 DEF OpenAre
<1>6. Held(s) = [n \in 1..N |-> s[e[n]].msg]
  <2> HIDE DEF e
  <2> QED BY <1>5, HeldOnly
<1> QED BY <1>2, <1>3, <1>4, <1>6

\* All messages are kept if the same records are open.
LEMMA SameHeld ==
  ASSUME NEW s \in Seq(Records), NEW w \in Seq(Records), Len(w) = Len(s),
         \A i \in 1..Len(s) : (IsOpen(w[i]) <=> IsOpen(s[i])) /\ (IsOpen(s[i]) => w[i].msg = s[i].msg)
  PROVE  Held(w) = Held(s)
<1> DEFINE N == Number(s)
<1>1. PICK e : OpenAre(s, N, e) /\ Held(s) = [n \in 1..N |-> s[e[n]].msg]
  BY HeldIs
<1> HIDE DEF N
<1>2. OpenAre(w, N, e)
  BY <1>1 DEF OpenAre
<1>3. Held(w) = [n \in 1..N |-> w[e[n]].msg]
  BY <1>2, HeldOnly
<1> QED BY <1>1, <1>3 DEF OpenAre

\* In w, the i-th of s is not open any more.
Closes(s, w, i) ==
  /\ Len(w) = Len(s)
  /\ \A j \in 1..Len(s) : /\ IsOpen(w[j]) <=> j # i /\ IsOpen(s[j])
                          /\ IsOpen(w[j]) => w[j].msg = s[j].msg

\* When one is not open any more, its message is taken away.
LEMMA LessHeld ==
  ASSUME NEW s \in Seq(Records), NEW w \in Seq(Records),
         NEW N \in Nat, NEW e, OpenAre(s, N, e), NEW p \in 1..N, Closes(s, w, e[p])
  PROVE  Held(w) = RemoveAt(Held(s), p)
<1> USE DEF Closes
<1> DEFINE f == [n \in 1..(N - 1) |-> IF n < p THEN e[n] ELSE e[n + 1]]
           U == Held(s)
<1>1. U = [n \in 1..N |-> s[e[n]].msg]
  BY HeldOnly
<1>2. /\ \A n \in 1..N : e[n] \in 1..Len(s) /\ IsOpen(s[e[n]])
      /\ \A n, q \in 1..N : n < q => e[n] < e[q]
      /\ \A i \in 1..Len(s) : IsOpen(s[i]) => \E n \in 1..N : e[n] = i
  BY DEF OpenAre
<1>3. \A n \in 1..N : e[n] \in Int /\ (n # p => e[n] # e[p])
  <2>1. ASSUME NEW n \in 1..N PROVE e[n] \in Int /\ (n # p => e[n] # e[p])
    <3>1. e[n] \in 1..Len(s) /\ e[p] \in 1..Len(s)
      BY <1>2
    <3>2. n < p => e[n] < e[p]
      BY <1>2
    <3>3. p < n => e[p] < e[n]
      BY <1>2
    <3>4. n < p \/ p < n \/ n = p
      OBVIOUS
    <3> QED BY <3>1, <3>2, <3>3, <3>4
  <2> QED BY <2>1
<1>4. OpenAre(w, N - 1, f)
  <2>1. N - 1 \in Nat
    OBVIOUS
  <2>2. \A n \in 1..(N - 1) : f[n] \in 1..Len(w) /\ IsOpen(w[f[n]])
    <3>1. ASSUME NEW n \in 1..(N - 1) PROVE f[n] \in 1..Len(w) /\ IsOpen(w[f[n]])
      <4>1. CASE n < p
        <5>1. n \in 1..N /\ n # p /\ f[n] = e[n]
          BY <4>1
        <5> HIDE DEF f
        <5> QED BY <1>2, <1>3, <5>1
      <4>2. CASE ~(n < p)
        <5>1. n + 1 \in 1..N /\ n + 1 # p /\ f[n] = e[n + 1]
          BY <4>2
        <5> HIDE DEF f
        <5> QED BY <1>2, <1>3, <5>1
      <4> QED BY <4>1, <4>2
    <3> QED BY <3>1
  <2>3. \A n, q \in 1..(N - 1) : n < q => f[n] < f[q]
    <3>1. ASSUME NEW n \in 1..(N - 1), NEW q \in 1..(N - 1), n < q PROVE f[n] < f[q]
      <4>1. n \in 1..N /\ q \in 1..N /\ n + 1 \in 1..N /\ q + 1 \in 1..N
        OBVIOUS
      <4>2. /\ f[n] = IF n < p THEN e[n] ELSE e[n + 1]
            /\ f[q] = IF q < p THEN e[q] ELSE e[q + 1]
        OBVIOUS
      <4>3. n < q + 1 /\ n + 1 < q + 1 /\ (~(n < p) => ~(q < p))
        BY <3>1
      <4> HIDE DEF f
      <4> QED BY <1>2, <3>1, <4>1, <4>2, <4>3
    <3> QED BY <3>1
  <2>4. ASSUME NEW i \in 1..Len(w), IsOpen(w[i]) PROVE \E n \in 1..(N - 1) : f[n] = i
    <3>1. PICK n \in 1..N : e[n] = i
      BY <1>2, <2>4
    <3>2. n # p
      BY <2>4, <3>1
    <3>3. CASE n < p
      <4>1. n \in 1..(N - 1) /\ f[n] = i
        BY <3>1, <3>3
      <4> QED BY <4>1
    <3>4. CASE n > p
      <4>1. n - 1 \in 1..(N - 1) /\ ~(n - 1 < p) /\ (n - 1) + 1 = n
        BY <3>4
      <4>2. f[n - 1] = i
        BY <3>1, <4>1
      <4> QED BY <4>1, <4>2
    <3> QED BY <3>2, <3>3, <3>4
  <2> HIDE DEF f
  <2> QED BY <2>1, <2>2, <2>3, <2>4 DEF OpenAre
<1>5. Held(w) = [n \in 1..(N - 1) |-> w[f[n]].msg]
  <2> HIDE DEF f
  <2> QED BY <1>4, HeldOnly
<1>6. \A n \in 1..(N - 1) : w[f[n]].msg = s[f[n]].msg
  <2>1. \A n \in 1..(N - 1) : f[n] \in 1..Len(w) /\ IsOpen(w[f[n]])
    BY <1>4 DEF OpenAre
  <2> HIDE DEF f
  <2> QED BY <2>1
<1>7. Held(w) = [n \in 1..(N - 1) |-> IF n < p THEN U[n] ELSE U[n + 1]]
  <2>1. ASSUME NEW n \in 1..(N - 1) PROVE w[f[n]].msg = IF n < p THEN U[n] ELSE U[n + 1]
    <3>1. n \in 1..N /\ n + 1 \in 1..N
      OBVIOUS
    <3>2. f[n] = IF n < p THEN e[n] ELSE e[n + 1]
      OBVIOUS
    <3>3. U[n] = s[e[n]].msg /\ U[n + 1] = s[e[n + 1]].msg
      BY <1>1, <3>1
    <3> HIDE DEF f, U
    <3> QED BY <1>6, <3>2, <3>3
  <2> HIDE DEF f, U
  <2> QED BY <1>5, <2>1
<1>8. RemoveAt(U, p) = [n \in 1..(N - 1) |-> IF n < p THEN U[n] ELSE U[n + 1]]
  <2> DEFINE V == {U[n] : n \in 1..N}
  <2> HIDE DEF U
  <2>1. U \in Seq(V) /\ Len(U) = N
    <3>1. \A n \in 1..N : U[n] \in V
      OBVIOUS
    <3> HIDE DEF V
    <3> QED BY <1>1, <3>1
  <2> DEFINE a == SubSeq(U, 1, p - 1)
             b == SubSeq(U, p + 1, Len(U))
  <2> HIDE DEF U, V
  <2>2. a \in Seq(V) /\ Len(a) = p - 1 /\ \A n \in 1..(p - 1) : a[n] = U[n]
    BY <2>1
  <2>3. b \in Seq(V) /\ Len(b) = N - p /\ \A n \in 1..(N - p) : b[n] = U[p + n]
    BY <2>1
  <2>4. RemoveAt(U, p) = a \o b
    BY DEF RemoveAt
  <2> HIDE DEF a, b
  <2>5. a \o b = [n \in 1..(N - 1) |-> IF n < p THEN a[n] ELSE b[n - (p - 1)]]
    <3>1. Len(a) + Len(b) = N - 1 /\ N - 1 \in Nat
      BY <2>2, <2>3
    <3>2. a \o b \in Seq(V) /\ Len(a \o b) = N - 1
      <4>1. a \in Seq(V) /\ b \in Seq(V)
        BY <2>2, <2>3
      <4>2. a \o b \in Seq(V) /\ Len(a \o b) = Len(a) + Len(b)
        BY <4>1
      <4> QED BY <3>1, <4>2
    <3>3. ASSUME NEW n \in 1..(N - 1) PROVE (a \o b)[n] = IF n < p THEN a[n] ELSE b[n - (p - 1)]
      <4>1. n \in 1..(Len(a) + Len(b)) /\ Len(a) = p - 1 /\ Len(a) \in Nat
        BY <2>2, <3>1
      <4>2. (a \o b)[n] = IF n <= Len(a) THEN a[n] ELSE b[n - Len(a)]
        BY <2>2, <2>3, <4>1
      <4>3. n <= Len(a) <=> n < p
        BY <4>1
      <4> QED BY <4>1, <4>2, <4>3
    <3> DEFINE c == a \o b
    <3> HIDE DEF c
    <3>5. c \in Seq(V) /\ Len(c) = N - 1
      BY <3>2 DEF c
    <3>4. c = [n \in 1..(N - 1) |-> c[n]]
      BY <3>5
    <3> QED BY <3>3, <3>4 DEF c
  <2>6. ASSUME NEW n \in 1..(N - 1)
        PROVE  (IF n < p THEN a[n] ELSE b[n - (p - 1)]) = IF n < p THEN U[n] ELSE U[n + 1]
    <3>1. CASE n < p
      BY <2>2, <3>1
    <3>2. CASE ~(n < p)
      <4>1. n - (p - 1) \in 1..(N - p) /\ p + (n - (p - 1)) = n + 1
        BY <3>2
      <4> QED BY <2>3, <3>2, <4>1
    <3> QED BY <3>1, <3>2
  <2> QED BY <2>4, <2>5, <2>6
<1> QED BY <1>7, <1>8

\* A record more, and a message more if it is open.
LEMMA AppendHeld ==
  ASSUME NEW s \in Seq(Records), NEW x \in Records
  PROVE  /\ IsOpen(x) => Held(Append(s, x)) = Append(Held(s), x.msg)
         /\ ~IsOpen(x) => Held(Append(s, x)) = Held(s)
<1> DEFINE w == Append(s, x)
           N == Number(s)
<1>1. /\ w \in Seq(Records) /\ Len(w) = Len(s) + 1 /\ Len(s) \in Nat
      /\ \A i \in 1..Len(s) : w[i] = s[i]
      /\ w[Len(s) + 1] = x
  BY AppendIs
<1>2. PICK e : OpenAre(s, N, e) /\ Held(s) = [n \in 1..N |-> s[e[n]].msg]
  BY HeldIs
<1> HIDE DEF N, w
<1>3. /\ N \in Nat
      /\ \A n \in 1..N : e[n] \in 1..Len(s) /\ IsOpen(s[e[n]])
      /\ \A n, p \in 1..N : n < p => e[n] < e[p]
      /\ \A i \in 1..Len(s) : IsOpen(s[i]) => \E n \in 1..N : e[n] = i
  BY <1>2 DEF OpenAre
<1>4. ASSUME ~IsOpen(x) PROVE Held(w) = Held(s)
  <2>1. OpenAre(w, N, e)
    <3>1. \A n \in 1..N : e[n] \in 1..Len(w) /\ IsOpen(w[e[n]])
      BY <1>1, <1>3
    <3>2. ASSUME NEW i \in 1..Len(w), IsOpen(w[i]) PROVE \E n \in 1..N : e[n] = i
      <4>1. i \in 1..Len(s)
        BY <1>1, <1>4, <3>2
      <4> QED BY <1>1, <1>3, <3>2, <4>1
    <3> QED BY <1>3, <3>1, <3>2 DEF OpenAre
  <2>2. Held(w) = [n \in 1..N |-> w[e[n]].msg]
    BY <1>1, <2>1, HeldOnly
  <2> QED BY <1>1, <1>2, <1>3, <2>2
<1>5. ASSUME IsOpen(x) PROVE Held(w) = Append(Held(s), x.msg)
  <2> DEFINE f == [n \in 1..(N + 1) |-> IF n <= N THEN e[n] ELSE Len(s) + 1]
             U == Held(s)
  <2>1. /\ N + 1 \in Nat /\ N + 1 \in 1..(N + 1) /\ f[N + 1] = Len(s) + 1
        /\ \A n \in 1..N : n \in 1..(N + 1) /\ f[n] = e[n]
        /\ \A n \in 1..(N + 1) : n \in 1..N \/ n = N + 1
    BY <1>3
  <2> HIDE DEF f
  <2>2. \A n \in 1..(N + 1) : f[n] \in 1..Len(w) /\ IsOpen(w[f[n]])
    <3>1. ASSUME NEW n \in 1..(N + 1) PROVE f[n] \in 1..Len(w) /\ IsOpen(w[f[n]])
      <4>1. CASE n \in 1..N
        <5>1. f[n] = e[n] /\ e[n] \in 1..Len(s) /\ IsOpen(s[e[n]])
          BY <1>3, <2>1, <4>1
        <5>2. w[e[n]] = s[e[n]] /\ e[n] \in 1..Len(w)
          BY <1>1, <5>1
        <5> QED BY <5>1, <5>2
      <4>2. CASE n = N + 1
        <5>1. f[n] = Len(s) + 1
          BY <2>1, <4>2
        <5>2. Len(s) + 1 \in 1..Len(w) /\ w[Len(s) + 1] = x
          BY <1>1
        <5> QED BY <1>5, <5>1, <5>2
      <4> QED BY <2>1, <4>1, <4>2
    <3> QED BY <3>1
  <2>3. ASSUME NEW n \in 1..(N + 1), NEW p \in 1..(N + 1), n < p PROVE f[n] < f[p]
    <3>1. n \in 1..N /\ f[n] = e[n]
      BY <1>3, <2>1, <2>3
    <3>2. CASE p \in 1..N
      BY <1>3, <2>1, <2>3, <3>1, <3>2
    <3>3. CASE p = N + 1
      <4>1. e[n] \in 1..Len(s)
        BY <1>3, <3>1
      <4> QED BY <1>1, <2>1, <3>1, <3>3, <4>1
    <3> QED BY <2>1, <3>2, <3>3
  <2>4. ASSUME NEW i \in 1..Len(w), IsOpen(w[i]) PROVE \E n \in 1..(N + 1) : f[n] = i
    <3>1. CASE i \in 1..Len(s)
      <4>1. PICK n \in 1..N : e[n] = i
        BY <1>1, <1>3, <2>4, <3>1
      <4> QED BY <2>1, <4>1
    <3>2. CASE i = Len(s) + 1
      BY <2>1, <3>2
    <3> QED BY <1>1, <3>1, <3>2
  <2>5. OpenAre(w, N + 1, f)
    BY <2>1, <2>2, <2>3, <2>4 DEF OpenAre
  <2>6. Held(w) = [n \in 1..(N + 1) |-> w[f[n]].msg]
    BY <1>1, <2>5, HeldOnly
  <2>7. U = [n \in 1..N |-> s[e[n]].msg]
    BY <1>2
  <2>8. Append(U, x.msg) = [n \in 1..(N + 1) |-> IF n <= N THEN U[n] ELSE x.msg]
    <3> DEFINE v == x.msg
               V == {U[n] : n \in 1..N} \cup {v}
               q == Append(U, v)
    <3> HIDE DEF U, v
    <3>1. U \in Seq(V) /\ Len(U) = N /\ v \in V
      <4>1. v \in V /\ \A n \in 1..N : U[n] \in V
        OBVIOUS
      <4> HIDE DEF V
      <4> QED BY <1>3, <2>7, <4>1
    <3> HIDE DEF V
    <3>2. q \in Seq(V) /\ Len(q) = N + 1
      BY <3>1
    <3>3. \A n \in 1..(N + 1) : q[n] = IF n <= N THEN U[n] ELSE v
      BY <1>3, <3>1
    <3> HIDE DEF q
    <3>4. q = [n \in 1..(N + 1) |-> q[n]]
      BY <3>2
    <3>5. q = [n \in 1..(N + 1) |-> IF n <= N THEN U[n] ELSE v]
      BY <3>3, <3>4
    <3> QED BY <3>5 DEF v, q
  <2>9. ASSUME NEW n \in 1..(N + 1) PROVE w[f[n]].msg = IF n <= N THEN U[n] ELSE x.msg
    <3>1. CASE n \in 1..N
      <4>1. w[f[n]] = s[e[n]] /\ n <= N
        BY <1>1, <1>3, <2>1, <3>1
      <4> QED BY <2>7, <3>1, <4>1
    <3>2. CASE n = N + 1
      <4>1. ~(n <= N)
        BY <1>3, <3>2
      <4> QED BY <1>1, <2>1, <3>2, <4>1
    <3> QED BY <2>1, <3>1, <3>2
  <2> HIDE DEF U
  <2>10. Held(w) = Append(U, x.msg)
    BY <2>6, <2>8, <2>9
  <2> QED BY <2>10 DEF U
<1> QED BY <1>4, <1>5 DEF w

\* What is stored adds one message.
LEMMA StoreHeld ==
  ASSUME RingOK, NEW m \in Messages
  PROVE  Held(recs \o Stored(m)) = Append(Held(recs), m)
<1>1. recs \in Seq(Records) /\ top \in 0..Size
  BY DEF RingOK
<1>2. /\ EndMark \in Records /\ EndMark.read /\ Record(m) \in Records /\ Record(m).msg = m
      /\ ~Record(m).read /\ ~Record(m).old
  BY <1>1, RecordsAre
<1>3. ~IsOpen(EndMark) /\ IsOpen(Record(m))
  BY <1>2 DEF IsOpen
<1> HIDE DEF Messages, EndMark, Record
<1>4. CASE PastEnd(m)
  <2>1. recs \o Stored(m) = Append(Append(recs, EndMark), Record(m))
    BY <1>1, <1>4, StoredIs
  <2>2. Append(recs, EndMark) \in Seq(Records) /\ Held(Append(recs, EndMark)) = Held(recs)
    BY <1>1, <1>2, <1>3, AppendHeld, AppendIs
  <2> QED BY <1>2, <1>3, <2>1, <2>2, AppendHeld
<1>5. CASE ~PastEnd(m)
  <2>1. recs \o Stored(m) = Append(recs, Record(m))
    BY <1>1, <1>5, StoredIs
  <2> QED BY <1>1, <1>2, <1>3, <2>1, AppendHeld
<1> QED BY <1>4, <1>5

\* What Match finds is what a call of the channel finds.
LEMMA MatchHeld ==
  ASSUME RingOK, NEW r, NEW N, NEW e, OpenAre(recs, N, e)
  PROVE  IF Match(r) = 0 THEN Channel!Wanted(r) = 0
         ELSE Channel!Wanted(r) \in 1..N /\ e[Channel!Wanted(r)] = Match(r)
<1> DEFINE U == Unread
           I == {n \in 1..Len(U) : asked[r] \in {AnyID, U[n].id}}
           p == Channel!Wanted(r)
<1>1. recs \in Seq(Records)
  BY DEF RingOK
<1>2. U = [n \in 1..N |-> recs[e[n]].msg]
  BY <1>1, HeldOnly, UnreadIs
<1>3. /\ N \in Nat
      /\ \A n \in 1..N : e[n] \in 1..Len(recs) /\ IsOpen(recs[e[n]])
      /\ \A n, q \in 1..N : n < q => e[n] < e[q]
      /\ \A i \in 1..Len(recs) : IsOpen(recs[i]) => \E n \in 1..N : e[n] = i
  BY DEF OpenAre
<1>4. Len(U) = N /\ \A n \in 1..N : U[n] = recs[e[n]].msg
  BY <1>2, <1>3
<1>5. p = IF I # {} THEN Channel!Min(I) ELSE 0
  BY DEF Channel!Wanted, Channel!SelectInSeq
<1>6. I # {} => p \in I /\ \A y \in I : p <= y
  <2>1. I \in SUBSET Nat
    OBVIOUS
  <2> HIDE DEF I
  <2> QED BY <1>5, <2>1, LeastOf DEF Channel!Min
<1> HIDE DEF p
<1>7. \A n \in I : n \in 1..N /\ asked[r] \in {AnyID, recs[e[n]].msg.id}
  BY <1>4
<1>8. \A n \in 1..N : n \in I <=> Wanted(r, recs[e[n]])
  BY <1>3, <1>4 DEF Wanted, IsOpen
<1> HIDE DEF I, U
<1>9. /\ Match(r) \in 0..Len(recs)
      /\ Match(r) # 0 => /\ Match(r) \in 1..Len(recs)
                         /\ ~recs[Match(r)].old /\ Wanted(r, recs[Match(r)])
      /\ \A i \in 1..Len(recs) : ~recs[i].old /\ Wanted(r, recs[i]) => Match(r) # 0 /\ Match(r) <= i
  BY <1>1, MatchIs
<1>10. CASE Match(r) = 0
  <2>1. I = {}
    BY <1>3, <1>7, <1>8, <1>9, <1>10 DEF IsOpen
  <2> QED BY <1>5, <1>10, <2>1 DEF p
<1>11. CASE Match(r) # 0
  <2> DEFINE x == Match(r)
  <2>1. x \in 1..Len(recs) /\ IsOpen(recs[x]) /\ Wanted(r, recs[x])
    BY <1>9, <1>11 DEF IsOpen, Wanted
  <2>2. PICK n \in 1..N : e[n] = x
    BY <1>3, <2>1
  <2>3. n \in I
    BY <1>8, <2>1, <2>2
  <2>4. p \in I /\ p <= n /\ p \in 1..N
    BY <1>6, <1>7, <2>3
  <2>5. x <= e[p]
    BY <1>3, <1>8, <1>9, <2>4 DEF IsOpen
  <2>6. p < n => e[p] < e[n]
    BY <1>3, <2>4
  <2>7. e[p] \in 1..Len(recs)
    BY <1>3, <2>4
  <2> HIDE DEF x
  <2>8. p = n
    BY <2>1, <2>2, <2>4, <2>5, <2>6, <2>7
  <2> QED BY <1>11, <2>2, <2>4, <2>8 DEF p, x
<1> QED BY <1>10, <1>11

\* The empty ring is the empty channel.
LEMMA InitChannel == Init => Channel!Init
<1> SUFFICES ASSUME Init PROVE Channel!Init
  OBVIOUS
<1>1. recs = <<>> /\ recs \in Seq(Records) /\ Len(recs) = 0
  BY DEF Init
<1> DEFINE e == [n \in {} |-> 0]
<1>2. OpenAre(recs, 0, e)
  BY <1>1 DEF OpenAre
<1>3. Unread = [n \in 1..0 |-> recs[e[n]].msg]
  <2> DEFINE s == recs
             N == 0
  <2>1. s \in Seq(Records) /\ OpenAre(s, N, e)
    BY <1>1, <1>2
  <2> HIDE DEF e, s, N
  <2>2. Held(s) = [n \in 1..N |-> s[e[n]].msg]
    BY <2>1, HeldOnly
  <2> QED BY <2>2, UnreadIs DEF s, N
<1>4. Unread = <<>>
  BY <1>3
<1> QED BY <1>4 DEF Init, Channel!Init

\* What a scan does to the messages: Receive takes one, no other scan takes any.
LEMMA ScansHeld ==
  ASSUME RingOK, NEW r \in Readers,
         \/ Receive(r) \/ ReceiveTooBig(r) \/ ReceiveNothing(r) \/ Sleep(r) \/ NoPlace(r)
  PROVE  IF Receive(r)
         THEN /\ Channel!Wanted(r) # 0 /\ Unread[Channel!Wanted(r)] = recs[Match(r)].msg
              /\ Unread' = RemoveAt(Unread, Channel!Wanted(r))
         ELSE Unread' = Unread
<1>1. /\ RingOK' /\ recs' \in Seq(Records)
      /\ IF Receive(r) THEN Match(r) \in 1..Len(recs) /\ Derived(Marked(Match(r)), recs')
         ELSE Derived(Marked(0), recs')
  BY ScansRing
<1>2. recs \in Seq(Records) /\ Len(recs) \in Nat
  BY DEF RingOK
<1>3. ASSUME NEW n \in Nat
      PROVE  /\ Marked(n) \in Seq(Records) /\ Len(Marked(n)) = Len(recs)
             /\ \A i \in 1..Len(recs) :
                  /\ IsOpen(Marked(n)[i]) <=> i # n /\ IsOpen(recs[i])
                  /\ IsOpen(Marked(n)[i]) => Marked(n)[i].msg = recs[i].msg
  BY <1>2, MarkedIs DEF IsOpen
<1>4. CASE Receive(r)
  <2> DEFINE x == Match(r)
             N == Number(recs)
             p == Channel!Wanted(r)
  <2>1. x \in 1..Len(recs) /\ x \in Nat /\ x # 0 /\ Derived(Marked(x), recs')
    BY <1>1, <1>4
  <2>2. PICK e : OpenAre(recs, N, e) /\ Held(recs) = [n \in 1..N |-> recs[e[n]].msg]
    BY <1>2, HeldIs
  <2>3. N \in Nat
    BY <2>2 DEF OpenAre
  <2> HIDE DEF N
  <2>4. p \in 1..N /\ e[p] = x
    BY <2>1, <2>2, MatchHeld
  <2>5. p # 0 /\ Unread[p] = recs[x].msg
    BY <2>2, <2>3, <2>4, UnreadIs
  <2> DEFINE w == Marked(x)
  <2>6. /\ w \in Seq(Records) /\ Len(w) = Len(recs)
        /\ \A i \in 1..Len(recs) : /\ IsOpen(w[i]) <=> i # x /\ IsOpen(recs[i])
                                   /\ IsOpen(w[i]) => w[i].msg = recs[i].msg
    BY <1>3, <2>1
  <2> HIDE DEF w, x, p
  <2>7. Held(w) = RemoveAt(Held(recs), p)
    <3>1. Closes(recs, w, x)
      BY <2>6 DEF Closes
    <3> QED BY <1>2, <2>2, <2>3, <2>4, <2>6, <3>1, LessHeld
  <2>8. Held(recs') = Held(w)
    BY <1>1, <2>1, <2>6, DerivedHeld DEF w
  <2> QED BY <1>4, <2>5, <2>7, <2>8, UnreadIs DEF p, x
<1>5. CASE ~Receive(r)
  <2>1. Derived(Marked(0), recs') /\ Marked(0) \in Seq(Records)
    BY <1>1, <1>3, <1>5
  <2>2. Held(Marked(0)) = Held(recs)
    <3>1. \A i \in 1..Len(recs) : i # 0
      OBVIOUS
    <3> QED BY <1>2, <1>3, <3>1, SameHeld
  <2>3. Held(recs') = Held(Marked(0))
    BY <1>1, <2>1, DerivedHeld
  <2> QED BY <1>5, <2>2, <2>3, UnreadIs
<1> QED BY <1>4, <1>5

\* The oldest message goes when its time has passed.
LEMMA ExpireHeld ==
  ASSUME RingOK, Expire PROVE Unread # <<>> /\ Unread' = Tail(Unread)
<1>1. PICK i \in 1..Len(recs) :
        /\ ~recs[i].read /\ ~recs[i].old
        /\ \A j \in 1..Len(recs) : j < i => recs[j].read \/ recs[j].old
        /\ recs' \in Seq(Records) /\ Len(recs') = Len(recs)
        /\ \A j \in 1..Len(recs) : /\ recs'[j].read = recs[j].read /\ recs'[j].msg = recs[j].msg
                                   /\ IF j = i THEN recs'[j].old ELSE recs'[j] = recs[j]
  BY ExpireIs
<1>2. recs \in Seq(Records) /\ Len(recs) \in Nat
  BY DEF RingOK
<1> DEFINE N == Number(recs)
<1>3. PICK e : OpenAre(recs, N, e) /\ Held(recs) = [n \in 1..N |-> recs[e[n]].msg]
  BY <1>2, HeldIs
<1> HIDE DEF N
<1>4. /\ N \in Nat
      /\ \A n \in 1..N : e[n] \in 1..Len(recs) /\ IsOpen(recs[e[n]])
      /\ \A n, p \in 1..N : n < p => e[n] < e[p]
      /\ \A j \in 1..Len(recs) : IsOpen(recs[j]) => \E n \in 1..N : e[n] = j
  BY <1>3 DEF OpenAre
<1>5. 1 \in 1..N /\ e[1] = i
  <2>1. PICK n \in 1..N : e[n] = i
    BY <1>1, <1>4 DEF IsOpen
  <2>2. 1 \in 1..N /\ (1 < n => e[1] < e[n])
    BY <1>4, <2>1
  <2>3. ~(e[1] < i)
    BY <1>1, <1>4, <2>2 DEF IsOpen
  <2> QED BY <2>1, <2>2, <2>3
<1>6. \A j \in 1..Len(recs) : /\ IsOpen(recs'[j]) <=> j # e[1] /\ IsOpen(recs[j])
                              /\ IsOpen(recs'[j]) => recs'[j].msg = recs[j].msg
  BY <1>1, <1>5 DEF IsOpen
<1>7. Held(recs') = RemoveAt(Held(recs), 1)
  <2> DEFINE p == 1
  <2>1. Closes(recs, recs', e[p])
    BY <1>1, <1>6 DEF Closes
  <2>2. p \in 1..N /\ N \in Nat
    BY <1>4, <1>5
  <2> HIDE DEF p
  <2>3. Held(recs') = RemoveAt(Held(recs), p)
    BY <1>1, <1>2, <1>3, <2>1, <2>2, LessHeld
  <2> QED BY <2>3 DEF p
<1> DEFINE U == Held(recs)
<1>8. U = [n \in 1..N |-> recs[e[n]].msg]
  BY <1>3
<1>9. RemoveAt(U, 1) = Tail(U) /\ U # <<>>
  <2> DEFINE V == {U[n] : n \in 1..N}
  <2> HIDE DEF U
  <2>1. U \in Seq(V) /\ Len(U) = N
    <3>1. \A n \in 1..N : U[n] \in V
      OBVIOUS
    <3> HIDE DEF V
    <3> QED BY <1>4, <1>8, <3>1
  <2> HIDE DEF V
  <2> DEFINE a == SubSeq(U, 1, 1 - 1)
             b == SubSeq(U, 1 + 1, Len(U))
  <2>2. a = <<>>
    BY <2>1
  <2>3. b = Tail(U)
    BY <1>4, <1>5, <2>1
  <2>4. b \in Seq(V)
    BY <1>4, <1>5, <2>1
  <2>5. RemoveAt(U, 1) = a \o b
    BY DEF RemoveAt
  <2> HIDE DEF a, b
  <2>6. RemoveAt(U, 1) = Tail(U)
    BY <2>2, <2>3, <2>4, <2>5
  <2>7. U # <<>>
    BY <1>5, <2>1
  <2> QED BY <2>6, <2>7
<1> HIDE DEF U
<1> QED BY <1>7, <1>9, UnreadIs DEF U

\* Every step of the queue is one of the channel, or none.
LEMMA StepChannel == Inv /\ [Next]_vars => [Channel!Next]_<<Unread, asked, got>>
<1> SUFFICES ASSUME Inv, [Next]_vars PROVE Channel!Next \/ UNCHANGED <<Unread, asked, got>>
  OBVIOUS
<1>1. RingOK /\ CallOK
  BY DEF Inv
<1>2. ASSUME UNCHANGED <<recs, asked, got>> PROVE UNCHANGED <<Unread, asked, got>>
  BY <1>2, UnreadIs
<1>3. CASE UNCHANGED vars \/ \E w \in Writers : EnqueMsg(w) \/ Overwrite(w) \/ GiveUp(w)
  BY <1>2, <1>3 DEF vars, ring, EnqueMsg, Overwrite, GiveUp, Sent
<1>4. CASE \E r \in Readers : WakeUp(r) \/ Interrupt(r)
  BY <1>2, <1>4 DEF WakeUp, Interrupt, ring
<1>5. CASE Expire
  <2>1. Unread # <<>> /\ Unread' = Tail(Unread)
    BY <1>1, <1>5, ExpireHeld
  <2>2. UNCHANGED <<asked, got>>
    BY <1>5 DEF Expire
  <2> QED BY <2>1, <2>2 DEF Channel!Next, Channel!Expire
<1>6. ASSUME NEW w \in Writers, Store(w) PROVE Channel!Next
  <2>1. msg[w] \in Messages
    BY <1>1, <1>6 DEF CallOK, Store
  <2>2. recs' = recs \o Stored(msg[w]) /\ UNCHANGED <<asked, got>>
    BY <1>6 DEF Store, Sent
  <2> DEFINE m == msg[w]
  <2> HIDE DEF m, Messages
  <2>3. m \in Messages /\ recs' = recs \o Stored(m)
    BY <2>1, <2>2 DEF m
  <2>4. Held(recs') = Append(Held(recs), m)
    BY <1>1, <2>3, StoreHeld
  <2>5. Unread' = Append(Unread, m)
    BY <2>4, UnreadIs
  <2>6. Channel!Send
    BY <2>2, <2>3, <2>5 DEF Channel!Send
  <2> QED BY <2>6 DEF Channel!Next
<1>7. ASSUME NEW r \in Readers, DequeMsg(r) PROVE Channel!Next
  <2>1. UNCHANGED recs /\ pc[r] = "idle"
    BY <1>7 DEF DequeMsg, ring
  <2>2. Unread' = Unread
    BY <2>1, UnreadIs
  <2>3. got[r] # Pending
    BY <1>1, <2>1 DEF CallOK
  <2>4. PICK id \in Waits[r] : asked' = [asked EXCEPT ![r] = id]
    BY <1>7 DEF DequeMsg
  <2>5. id \in IDs \cup {AnyID}
    BY QueueAssumption
  <2>6. got' = [got EXCEPT ![r] = Pending]
    BY <1>7 DEF DequeMsg
  <2>7. Channel!Call(r)
    BY <2>2, <2>3, <2>4, <2>5, <2>6 DEF Channel!Call
  <2> QED BY <2>7 DEF Channel!Next
<1>8. ASSUME NEW r \in Readers, Receive(r) \/ ReceiveTooBig(r) \/ ReceiveNothing(r) \/ Sleep(r) \/ NoPlace(r)
      PROVE  Channel!Next \/ UNCHANGED <<Unread, asked, got>>
  <2>1. asked' = asked /\ pc[r] \in {"scanning", "woken"}
    BY <1>8 DEF Receive, ReceiveTooBig, ReceiveNothing, Sleep, NoPlace, Scans
  <2>2. got[r] = Pending
    BY <1>1, <2>1 DEF CallOK
  <2>3. PICK e : OpenAre(recs, Number(recs), e)
    <3>1. recs \in Seq(Records)
      BY <1>1 DEF RingOK
    <3> QED BY <3>1, HeldIs
  <2>4. Match(r) = 0 <=> Channel!Wanted(r) = 0
    BY <1>1, <2>3, MatchHeld
  <2>5. CASE Receive(r)
    <3>1. /\ Channel!Wanted(r) # 0 /\ Unread[Channel!Wanted(r)] = recs[Match(r)].msg
          /\ Unread' = RemoveAt(Unread, Channel!Wanted(r))
      BY <1>1, <2>5, ScansHeld
    <3>2. got' = [got EXCEPT ![r] = recs[Match(r)].msg]
      BY <2>5 DEF Receive, Return
    <3> DEFINE p == Channel!Wanted(r)
    <3>3. Channel!RemoveAt(Unread, p) = RemoveAt(Unread, p)
      BY DEF Channel!RemoveAt, RemoveAt
    <3>4. Channel!Receive(r)
      BY <2>1, <2>2, <3>1, <3>2, <3>3 DEF Channel!Receive
    <3> QED BY <3>4 DEF Channel!Next
  <2>6. CASE ~Receive(r)
    <3>1. Unread' = Unread
      BY <1>1, <1>8, <2>6, ScansHeld
    <3>2. CASE ReceiveTooBig(r)
      <4>1. Channel!Wanted(r) # 0 /\ got' = [got EXCEPT ![r] = TooBig]
        BY <2>4, <3>2 DEF ReceiveTooBig, Return
      <4>2. Channel!Refuse(r)
        BY <2>1, <2>2, <3>1, <4>1 DEF Channel!Refuse
      <4> QED BY <4>2 DEF Channel!Next
    <3>3. CASE ReceiveNothing(r)
      <4>1. Channel!Wanted(r) = 0 /\ got' = [got EXCEPT ![r] = NoMessage]
        BY <2>4, <3>3 DEF ReceiveNothing, Return
      <4>2. Channel!Refuse(r)
        BY <2>1, <2>2, <3>1, <4>1 DEF Channel!Refuse
      <4> QED BY <4>2 DEF Channel!Next
    <3>4. CASE Sleep(r) \/ NoPlace(r)
      BY <2>1, <3>1, <3>4 DEF Sleep, NoPlace
    <3> QED BY <1>8, <2>6, <3>2, <3>3, <3>4
  <2> QED BY <2>5, <2>6
<1> QED BY <1>3, <1>4, <1>5, <1>6, <1>7, <1>8 DEF Next, WriterNext, ReaderNext

\* The queue implements the channel, for all constants: messages are received in the order in which they
\* were sent among those that a call asks for, once, and as they were sent, and a call that finds nothing
\* found nothing to be had (EnqueMsgEx, DequeMsgEx), whatever the ring does with their records.
THEOREM Implements == Spec => ImplementsChannel
<1>1. Init => Channel!Init
  BY InitChannel
<1>2. Inv /\ [Next]_vars => [Channel!Next]_<<Unread, asked, got>>
  BY StepChannel
<1> QED BY Safe, <1>1, <1>2, PTL DEF Spec, ImplementsChannel, Channel!Spec
=============================================================================
