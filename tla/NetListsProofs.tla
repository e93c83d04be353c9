--------------------------- MODULE NetListsProofs ---------------------------
(***************************************************************************)
(* The lists of NetClient: what following, taking out and putting in do to *)
(* the links next and me, for any number of clients.  The links are shown  *)
(* to be those of sequences of clients, none of them in two places, and    *)
(* each operation on links to be one on these sequences.                   *)
(***************************************************************************)
EXTENDS NetClient, FiniteSetTheorems, WellFoundedInduction, TLAPS

\* q without the client at its place p, and with c before its first.
Without(q, p) == [i \in 1..(Len(q) - 1) |-> IF i < p THEN q[i] ELSE q[i + 1]]
Pushed(c, q) == [i \in 1..(Len(q) + 1) |-> IF i = 1 THEN c ELSE q[i - 1]]

\* The links n and m lead through the clients of q and nowhere else.
Linked(n, m, l, q) ==
  /\ n[l] = (IF Len(q) = 0 THEN None ELSE q[1])
  /\ \A i \in 1..Len(q) : /\ n[q[i]] = (IF i = Len(q) THEN None ELSE q[i + 1])
                          /\ m[q[i]] = (IF i = 1 THEN l ELSE q[i - 1])

\* No client is at two places.
OncePlaced(s) ==
  \A l, k \in Lists : \A i \in 1..Len(s[l]), j \in 1..Len(s[k]) :
    s[l][i] = s[k][j] => l = k /\ i = j

\* The links make of each list l the sequence s[l] of clients, and no client is in two.
Arranged(n, m, s) ==
  /\ s \in [Lists -> Seq(Clients)] /\ OncePlaced(s)
  /\ \A l \in Lists : Linked(n, m, l, s[l])

\* c is in no list.
Nowhere(s, c) == \A l \in Lists : \A i \in 1..Len(s[l]) : s[l][i] # c

\* What GrabClient does to the links n and m, which become n2 and m2.
GrabbedIn(n, m, c, n2, m2) ==
  /\ n2[m[c]] = n[c] /\ \A x \in (Lists \cup Clients) \ {m[c]} : n2[x] = n[x]
  /\ n[c] # None => m2[n[c]] = m[c]
  /\ \A x \in Clients \ {n[c]} : m2[x] = m[x]

\* What AddAvailable, AddActive and AddClosed do to them: c, which is in no list, becomes the first of l.
AddedIn(n, m, l, c, n2, m2) ==
  /\ n2[l] = c /\ n2[c] = n[l] /\ \A x \in (Lists \cup Clients) \ {l, c} : n2[x] = n[x]
  /\ m2[c] = l /\ (n[l] # None => m2[n[l]] = c)
  /\ \A x \in Clients \ {c, n[l]} : m2[x] = m[x]

\* The places of Without(q, p).
LEMMA WithoutIs ==
  ASSUME NEW q \in Seq(Clients), NEW p \in 1..Len(q)
  PROVE  /\ Without(q, p) \in Seq(Clients) /\ Len(Without(q, p)) = Len(q) - 1
         /\ \A i \in 1..(Len(q) - 1) :
              /\ i < p => Without(q, p)[i] = q[i] /\ i \in 1..Len(q)
              /\ ~(i < p) => Without(q, p)[i] = q[i + 1] /\ i + 1 \in 1..Len(q)
<1> DEFINE F(i) == IF i < p THEN q[i] ELSE q[i + 1]
           n == Len(q) - 1
<1>1. n \in Nat /\ \A i \in 1..n : F(i) \in Clients /\ i \in 1..Len(q) /\ i + 1 \in 1..Len(q)
  OBVIOUS
<1> QED BY <1>1 DEF Without

\* The places of Pushed(c, q).
LEMMA PushedIs ==
  ASSUME NEW q \in Seq(Clients), NEW c \in Clients
  PROVE  /\ Pushed(c, q) \in Seq(Clients) /\ Len(Pushed(c, q)) = Len(q) + 1
         /\ Pushed(c, q)[1] = c
         /\ \A i \in 1..Len(q) : Pushed(c, q)[i + 1] = q[i]
         /\ \A i \in 1..(Len(q) + 1) : i # 1 => Pushed(c, q)[i] = q[i - 1] /\ i - 1 \in 1..Len(q)
<1> DEFINE F(i) == IF i = 1 THEN c ELSE q[i - 1]
<1>1. Len(q) + 1 \in Nat /\ \A i \in 1..(Len(q) + 1) : F(i) \in Clients
  OBVIOUS
<1> QED BY <1>1 DEF Pushed

\* GrabClient takes a client out of its list, and leaves all others where they were.
LEMMA GrabKeeps ==
  ASSUME NEW n, NEW m, NEW n2, NEW m2, NEW s, Arranged(n, m, s),
         NEW l \in Lists, NEW p \in 1..Len(s[l]), GrabbedIn(n, m, s[l][p], n2, m2)
  PROVE  Arranged(n2, m2, [s EXCEPT ![l] = Without(s[l], p)])
<1> DEFINE q == s[l]
           c == q[p]
           w == Without(q, p)
           r == [s EXCEPT ![l] = w]
<1>1. /\ q \in Seq(Clients) /\ c \in Clients /\ Len(q) \in Nat /\ p \in 1..Len(q) /\ c = q[p]
      /\ \A i \in 1..Len(q) : q[i] \in Clients
      /\ s \in [Lists -> Seq(Clients)]
      /\ \A k \in Lists : \A i \in 1..Len(s[k]) : s[k][i] \in Clients
      /\ \A k \in Lists : Len(s[k]) \in Nat
  BY DEF Arranged
<1>2. /\ w \in Seq(Clients) /\ Len(w) = Len(q) - 1
      /\ \A i \in 1..(Len(q) - 1) : /\ i < p => w[i] = q[i] /\ i \in 1..Len(q)
                                    /\ ~(i < p) => w[i] = q[i + 1] /\ i + 1 \in 1..Len(q)
  BY <1>1, WithoutIs
<1>3. /\ r \in [Lists -> Seq(Clients)] /\ r[l] = w
      /\ \A k \in Lists \ {l} : r[k] = s[k]
  BY <1>1, <1>2
<1>4. /\ \A i \in 1..Len(q), j \in 1..Len(q) : q[i] = q[j] => i = j
      /\ \A k \in Lists \ {l} : \A i \in 1..Len(s[k]), j \in 1..Len(q) : s[k][i] # q[j]
  BY DEF Arranged, OncePlaced
<1>5. Linked(n, m, l, q) /\ \A k \in Lists : Linked(n, m, k, s[k])
  BY DEF Arranged
<1>6. Lists \cap Clients = {} /\ None \notin Clients /\ None \notin Lists
  BY ClientsAssumption
<1>7. /\ n[c] = (IF p = Len(q) THEN None ELSE q[p + 1])
      /\ m[c] = (IF p = 1 THEN l ELSE q[p - 1])
  BY <1>5 DEF Linked
<1>8. GrabbedIn(n, m, c, n2, m2)
  OBVIOUS
<1> HIDE DEF q, c, w, r
<1>9. OncePlaced(r)
  <2> SUFFICES ASSUME NEW k \in Lists, NEW h \in Lists, NEW i \in 1..Len(r[k]), NEW j \in 1..Len(r[h]),
                      r[k][i] = r[h][j]
               PROVE  k = h /\ i = j
    BY DEF OncePlaced
  <2>1. /\ \A x \in 1..Len(w) : \E y \in 1..Len(q) : w[x] = q[y]
    BY <1>1, <1>2
  <2>2. CASE k = l /\ h = l
    BY <1>1, <1>2, <1>3, <1>4, <2>2
  <2>3. CASE k = l /\ h # l
    BY <1>3, <1>4, <2>1, <2>3
  <2>4. CASE k # l /\ h = l
    BY <1>3, <1>4, <2>1, <2>4
  <2>5. CASE k # l /\ h # l
    <3>1. OncePlaced(s)
      BY DEF Arranged
    <3> QED BY <1>3, <2>5, <3>1 DEF OncePlaced
  <2> QED BY <2>2, <2>3, <2>4, <2>5
<1>10. ASSUME NEW k \in Lists \ {l} PROVE Linked(n2, m2, k, r[k])
  <2>1. Linked(n, m, k, s[k]) /\ r[k] = s[k]
    BY <1>3, <1>5
  <2>2. m[c] # k /\ \A i \in 1..Len(s[k]) : s[k][i] # m[c] /\ s[k][i] # n[c]
    <3>1. m[c] = l \/ \E j \in 1..Len(q) : m[c] = q[j]
      BY <1>1, <1>7
    <3>2. n[c] = None \/ \E j \in 1..Len(q) : n[c] = q[j]
      BY <1>1, <1>7
    <3>3. \A j \in 1..Len(q) : q[j] \in Clients
      BY <1>1
    <3> QED BY <1>1, <1>4, <1>6, <3>1, <3>2, <3>3
  <2>3. n2[k] = n[k] /\ \A i \in 1..Len(s[k]) : n2[s[k][i]] = n[s[k][i]] /\ m2[s[k][i]] = m[s[k][i]]
    BY <1>1, <1>8, <2>2 DEF GrabbedIn
  <2> QED BY <2>1, <2>3 DEF Linked
<1>11. Linked(n2, m2, l, w)
  <2>1. \A i \in 1..Len(q) : i # p - 1 => n2[q[i]] = n[q[i]]
    <3>1. \A i \in 1..Len(q) : i # p - 1 => q[i] # m[c]
      BY <1>1, <1>4, <1>6, <1>7
    <3> QED BY <1>1, <1>8, <3>1 DEF GrabbedIn
  <2>2. \A i \in 1..Len(q) : i # p + 1 => m2[q[i]] = m[q[i]]
    <3>1. \A i \in 1..Len(q) : i # p + 1 => q[i] # n[c]
      BY <1>1, <1>4, <1>6, <1>7
    <3> QED BY <1>1, <1>8, <3>1 DEF GrabbedIn
  <2>3. p # 1 => n2[q[p - 1]] = n[c] /\ n2[l] = n[l]
    BY <1>1, <1>6, <1>7, <1>8 DEF GrabbedIn
  <2>4. p = 1 => n2[l] = n[c]
    BY <1>7, <1>8 DEF GrabbedIn
  <2>5. p # Len(q) => m2[q[p + 1]] = m[c]
    BY <1>1, <1>6, <1>7, <1>8 DEF GrabbedIn
  <2>6. /\ n[l] = (IF Len(q) = 0 THEN None ELSE q[1])
        /\ \A i \in 1..Len(q) : /\ n[q[i]] = (IF i = Len(q) THEN None ELSE q[i + 1])
                                /\ m[q[i]] = (IF i = 1 THEN l ELSE q[i - 1])
    BY <1>5 DEF Linked
  <2>7. n2[l] = (IF Len(w) = 0 THEN None ELSE w[1])
    <3>1. CASE p = 1
      <4>1. CASE Len(q) = 1
        BY <1>2, <1>7, <2>4, <3>1, <4>1
      <4>2. CASE Len(q) # 1
        <5>1. 1 \in 1..(Len(q) - 1) /\ ~(1 < p) /\ Len(w) # 0
          BY <1>1, <1>2, <3>1, <4>2
        <5>2. w[1] = q[1 + 1]
          BY <1>2, <5>1
        <5> QED BY <1>7, <2>4, <3>1, <4>2, <5>1, <5>2
      <4> QED BY <4>1, <4>2
    <3>2. CASE p # 1
      <4>1. 1 \in 1..(Len(q) - 1) /\ 1 < p /\ Len(w) # 0 /\ Len(q) # 0
        BY <1>1, <1>2, <3>2
      <4>2. w[1] = q[1]
        BY <1>2, <4>1
      <4> QED BY <2>3, <2>6, <3>2, <4>1, <4>2
    <3> QED BY <3>1, <3>2
  <2>8. ASSUME NEW i \in 1..Len(w)
        PROVE  /\ n2[w[i]] = (IF i = Len(w) THEN None ELSE w[i + 1])
               /\ m2[w[i]] = (IF i = 1 THEN l ELSE w[i - 1])
    <3>0. i \in 1..(Len(q) - 1) /\ p \in 1..Len(q) /\ Len(w) = Len(q) - 1 /\ Len(q) \in Nat
      BY <1>1, <1>2
    <3>1. CASE i < p - 1
      <4>1. w[i] = q[i] /\ w[i + 1] = q[i + 1] /\ (i # 1 => w[i - 1] = q[i - 1]) /\ i # Len(w)
        BY <1>2, <3>0, <3>1
      <4> QED BY <2>1, <2>2, <2>6, <3>0, <3>1, <4>1
    <3>2. CASE i = p - 1
      <4>1. w[i] = q[p - 1] /\ (i # 1 => w[i - 1] = q[i - 1]) /\ (i # Len(w) => w[i + 1] = q[p + 1])
        <5>1. w[i] = q[i]
          BY <1>2, <3>0, <3>2
        <5>2. i # 1 => w[i - 1] = q[i - 1]
          BY <1>2, <3>0, <3>2
        <5>3. i # Len(w) => w[i + 1] = q[(i + 1) + 1]
          BY <1>2, <3>0, <3>2
        <5> QED BY <3>0, <3>2, <5>1, <5>2, <5>3
      <4>2. n2[q[p - 1]] = (IF p = Len(q) THEN None ELSE q[p + 1])
        BY <1>7, <2>3, <3>0, <3>2
      <4>3. m2[q[p - 1]] = (IF i = 1 THEN l ELSE q[i - 1])
        BY <2>2, <2>6, <3>0, <3>2
      <4> QED BY <3>0, <3>2, <4>1, <4>2, <4>3
    <3>3. CASE i = p
      <4>1. w[i] = q[p + 1] /\ (i # 1 => w[i - 1] = q[p - 1]) /\ (i # Len(w) => w[i + 1] = q[i + 2])
        <5>1. w[i] = q[i + 1]
          BY <1>2, <3>0, <3>3
        <5>2. i # 1 => w[i - 1] = q[i - 1]
          BY <1>2, <3>0, <3>3
        <5>3. i # Len(w) => w[i + 1] = q[(i + 1) + 1]
          BY <1>2, <3>0, <3>3
        <5> QED BY <3>0, <3>3, <5>1, <5>2, <5>3
      <4>2. n2[q[p + 1]] = (IF i = Len(w) THEN None ELSE q[i + 2])
        BY <2>1, <2>6, <3>0, <3>3
      <4>3. m2[q[p + 1]] = (IF p = 1 THEN l ELSE q[p - 1])
        BY <1>7, <2>5, <3>0, <3>3
      <4> QED BY <3>0, <3>3, <4>1, <4>2, <4>3
    <3>4. CASE i > p
      <4>1. w[i] = q[i + 1] /\ w[i - 1] = q[i] /\ (i # Len(w) => w[i + 1] = q[i + 2])
        <5>1. w[i] = q[i + 1]
          BY <1>2, <3>0, <3>4
        <5>2. i - 1 \in 1..(Len(q) - 1) /\ ~(i - 1 < p) /\ (i - 1) + 1 = i
          BY <3>0, <3>4
        <5>3. w[i - 1] = q[(i - 1) + 1]
          BY <1>2, <5>2
        <5>4. ASSUME i # Len(w) PROVE w[i + 1] = q[(i + 1) + 1]
          <6>1. i + 1 \in 1..(Len(q) - 1) /\ ~(i + 1 < p)
            BY <3>0, <3>4, <5>4
          <6> QED BY <1>2, <6>1
        <5> QED BY <3>0, <3>4, <5>1, <5>2, <5>3, <5>4
      <4>2. n2[q[i + 1]] = (IF i = Len(w) THEN None ELSE q[i + 2])
        BY <2>1, <2>6, <3>0, <3>4
      <4>3. m2[q[i + 1]] = q[i]
        BY <2>2, <2>6, <3>0, <3>4
      <4> QED BY <3>0, <3>4, <4>1, <4>2, <4>3
    <3> QED BY <3>0, <3>1, <3>2, <3>3, <3>4
  <2> QED BY <2>7, <2>8 DEF Linked
<1>12. \A k \in Lists : Linked(n2, m2, k, r[k])
  BY <1>3, <1>10, <1>11
<1> QED BY <1>3, <1>9, <1>12 DEF Arranged, r, w, q

\* A client that is in no list is put before the first of one, and the others stay.
LEMMA AddKeeps ==
  ASSUME NEW n, NEW m, NEW n2, NEW m2, NEW s, Arranged(n, m, s),
         NEW l \in Lists, NEW c \in Clients, Nowhere(s, c), AddedIn(n, m, l, c, n2, m2)
  PROVE  Arranged(n2, m2, [s EXCEPT ![l] = Pushed(c, s[l])])
<1> DEFINE q == s[l]
           w == Pushed(c, q)
           r == [s EXCEPT ![l] = w]
<1>1. /\ q \in Seq(Clients) /\ Len(q) \in Nat /\ s \in [Lists -> Seq(Clients)]
      /\ \A i \in 1..Len(q) : q[i] \in Clients /\ q[i] # c
      /\ \A k \in Lists : \A i \in 1..Len(s[k]) : s[k][i] \in Clients /\ s[k][i] # c
      /\ \A k \in Lists : Len(s[k]) \in Nat
  BY DEF Arranged, Nowhere
<1>2. /\ w \in Seq(Clients) /\ Len(w) = Len(q) + 1 /\ w[1] = c
      /\ \A i \in 1..Len(q) : w[i + 1] = q[i]
      /\ \A i \in 1..(Len(q) + 1) : i # 1 => w[i] = q[i - 1] /\ i - 1 \in 1..Len(q)
  BY <1>1, PushedIs
<1>3. /\ r \in [Lists -> Seq(Clients)] /\ r[l] = w
      /\ \A k \in Lists \ {l} : r[k] = s[k]
  BY <1>1, <1>2
<1>4. /\ \A i \in 1..Len(q), j \in 1..Len(q) : q[i] = q[j] => i = j
      /\ \A k \in Lists \ {l} : \A i \in 1..Len(s[k]), j \in 1..Len(q) : s[k][i] # q[j]
  BY DEF Arranged, OncePlaced
<1>5. /\ n[l] = (IF Len(q) = 0 THEN None ELSE q[1])
      /\ \A i \in 1..Len(q) : /\ n[q[i]] = (IF i = Len(q) THEN None ELSE q[i + 1])
                              /\ m[q[i]] = (IF i = 1 THEN l ELSE q[i - 1])
  BY DEF Arranged, Linked
<1>6. Lists \cap Clients = {} /\ None \notin Clients /\ None \notin Lists
  BY ClientsAssumption
<1>7. AddedIn(n, m, l, c, n2, m2) /\ OncePlaced(s) /\ \A k \in Lists : Linked(n, m, k, s[k])
  BY DEF Arranged
<1> HIDE DEF q, w, r
<1>8. OncePlaced(r)
  <2> SUFFICES ASSUME NEW k \in Lists, NEW h \in Lists, NEW i \in 1..Len(r[k]), NEW j \in 1..Len(r[h]),
                      r[k][i] = r[h][j]
               PROVE  k = h /\ i = j
    BY DEF OncePlaced
  <2>1. \A x \in 1..Len(w) : w[x] = c \/ \E y \in 1..Len(q) : w[x] = q[y]
    BY <1>2
  <2>2. CASE k = l /\ h = l
    <3>1. i \in 1..(Len(q) + 1) /\ j \in 1..(Len(q) + 1) /\ w[i] = w[j]
      BY <1>2, <1>3, <2>2
    <3>2. CASE i = 1 \/ j = 1
      <4>1. \A x \in 1..(Len(q) + 1) : x # 1 => w[x] # c
        BY <1>1, <1>2, SMTT(30)
      <4>2. w[1] = c
        BY <1>2
      <4> QED BY <2>2, <3>1, <3>2, <4>1, <4>2
    <3>3. CASE i # 1 /\ j # 1
      <4>1. /\ w[i] = q[i - 1] /\ i - 1 \in 1..Len(q)
            /\ w[j] = q[j - 1] /\ j - 1 \in 1..Len(q)
        BY <1>2, <3>1, <3>3
      <4>2. i - 1 = j - 1
        BY <1>4, <3>1, <4>1
      <4>3. i \in Int /\ j \in Int
        BY <3>1
      <4> QED BY <2>2, <4>2, <4>3
    <3> QED BY <3>2, <3>3
  <2>3. CASE k = l /\ h # l
    BY <1>1, <1>3, <1>4, <2>1, <2>3
  <2>4. CASE k # l /\ h = l
    BY <1>1, <1>3, <1>4, <2>1, <2>4
  <2>5. CASE k # l /\ h # l
    BY <1>3, <1>7, <2>5 DEF OncePlaced
  <2> QED BY <2>2, <2>3, <2>4, <2>5
<1>9. ASSUME NEW k \in Lists \ {l} PROVE Linked(n2, m2, k, r[k])
  <2>1. Linked(n, m, k, s[k]) /\ r[k] = s[k]
    BY <1>3, <1>7
  <2>2. n[l] = None \/ \E j \in 1..Len(q) : n[l] = q[j]
    BY <1>1, <1>5
  <2>3. \A i \in 1..Len(s[k]) : s[k][i] \in Clients \ {c, n[l]} /\ s[k][i] # l
    BY <1>1, <1>4, <1>6, <2>2
  <2>4. n2[k] = n[k] /\ \A i \in 1..Len(s[k]) : n2[s[k][i]] = n[s[k][i]] /\ m2[s[k][i]] = m[s[k][i]]
    BY <1>6, <1>7, <2>3 DEF AddedIn
  <2> QED BY <2>1, <2>4 DEF Linked
<1>10. Linked(n2, m2, l, w)
  <2>1. n2[l] = c /\ n2[c] = n[l] /\ m2[c] = l
    BY <1>7 DEF AddedIn
  <2>2. \A i \in 1..Len(q) : n2[q[i]] = n[q[i]]
    BY <1>1, <1>6, <1>7 DEF AddedIn
  <2>3. \A i \in 1..Len(q) : i # 1 => m2[q[i]] = m[q[i]]
    <3>1. \A i \in 1..Len(q) : i # 1 => q[i] \in Clients \ {c, n[l]}
      BY <1>1, <1>4, <1>5
    <3> QED BY <1>7, <3>1 DEF AddedIn
  <2>4. Len(q) # 0 => n[l] = q[1] /\ m2[q[1]] = c
    BY <1>1, <1>5, <1>6, <1>7 DEF AddedIn
  <2>5. ASSUME NEW i \in 1..Len(w)
        PROVE  /\ n2[w[i]] = (IF i = Len(w) THEN None ELSE w[i + 1])
               /\ m2[w[i]] = (IF i = 1 THEN l ELSE w[i - 1])
    <3>0. i \in 1..(Len(q) + 1) /\ Len(w) = Len(q) + 1 /\ Len(q) \in Nat
      BY <1>1, <1>2
    <3>1. CASE i = 1
      <4>1. CASE Len(q) = 0
        BY <1>2, <1>5, <2>1, <3>1, <4>1
      <4>2. CASE Len(q) # 0
        <5>1. 1 \in 1..Len(q)
          BY <3>0, <4>2
        <5>2. w[1 + 1] = q[1]
          BY <1>2, <5>1
        <5> QED BY <1>2, <2>1, <2>4, <3>0, <3>1, <4>2, <5>2
      <4> QED BY <4>1, <4>2
    <3>2. CASE i # 1
      <4> DEFINE j == i - 1
      <4>1. j \in 1..Len(q) /\ i = j + 1 /\ w[i] = q[j]
        BY <1>2, <3>0, <3>2
      <4> HIDE DEF j
      <4>2. j # Len(q) => w[i + 1] = q[j + 1]
        <5>1. j # Len(q) => j + 1 \in 1..Len(q)
          BY <3>0, <4>1
        <5> QED BY <1>2, <4>1, <5>1
      <4>3. j # 1 => w[i - 1] = q[j - 1]
        <5>1. j # 1 => i - 1 \in 1..(Len(q) + 1) /\ i - 1 # 1 /\ i - 1 = j
          BY <3>0, <4>1
        <5> QED BY <1>2, <4>1, <5>1
      <4>4. j = 1 => w[i - 1] = c /\ m2[q[j]] = c
        BY <1>2, <2>4, <3>0, <4>1
      <4>5. n2[q[j]] = (IF j = Len(q) THEN None ELSE q[j + 1])
        BY <1>5, <2>2, <4>1
      <4>6. j # 1 => m2[q[j]] = q[j - 1]
        BY <1>5, <2>3, <4>1
      <4>7. i = Len(w) <=> j = Len(q)
        BY <3>0, <4>1
      <4> QED BY <3>2, <4>1, <4>2, <4>3, <4>4, <4>5, <4>6, <4>7
    <3> QED BY <3>1, <3>2
  <2>6. Len(w) # 0
    BY <1>1, <1>2
  <2> QED BY <1>2, <2>1, <2>5, <2>6 DEF Linked
<1>11. \A k \in Lists : Linked(n2, m2, k, r[k])
  BY <1>3, <1>9, <1>10
<1> QED BY <1>3, <1>8, <1>11 DEF Arranged, r, w, q

\* A set of natural numbers that is not empty has a least one.
LEMMA LeastOf ==
  ASSUME NEW S \in SUBSET Nat, S # {}
  PROVE  \E x \in S : \A y \in S : x <= y
<1> DEFINE R == {ss \in Nat \X Nat : ss[1] < ss[2]}
<1>1. \E x \in S : \A y \in S : ~(<<y, x>> \in R)
  <2>1. IsWellFoundedOn(R, Nat)
    BY NatLessThanWellFounded DEF OpToRel
  <2> HIDE DEF R
  <2> QED BY <2>1, WFMin
<1>2. ASSUME NEW x \in Nat, NEW y \in Nat, y < x
      PROVE  <<y, x>> \in R
  <2>1. <<y, x>> \in Nat \X Nat /\ <<y, x>>[1] < <<y, x>>[2]
    BY <1>2
  <2> QED BY <2>1
<1>3. PICK x \in S : \A y \in S : ~(<<y, x>> \in R)
  BY <1>1
<1> HIDE DEF R
<1>4. ASSUME NEW y \in S PROVE x <= y
  <2>1. x \in Nat /\ y \in Nat /\ (y < x => <<y, x>> \in R)
    BY <1>2
  <2> QED BY <1>3, <2>1
<1> QED BY <1>3, <1>4

\* Chain, which follows next from the head of a list, meets its clients in their order, and then None.
LEMMA ChainOf ==
  ASSUME NEW l \in Lists, NEW q \in Seq(Clients), Linked(next, me, l, q),
         Cardinality(Clients) \in Nat, Len(q) <= Cardinality(Clients)
  PROVE  Chain(l) = [n \in 0..Cardinality(Clients) |-> IF n < Len(q) THEN q[n + 1] ELSE None]
<1> DEFINE N == Cardinality(Clients)
           G == [n \in 0..N |-> IF n < Len(q) THEN q[n + 1] ELSE None]
           Rec(f) == [n \in 0..N |-> IF n = 0 THEN next[l]
                                     ELSE IF f[n - 1] = None THEN None ELSE next[f[n - 1]]]
<1>0. N \in Nat /\ Len(q) \in Nat /\ Len(q) <= N /\ None \notin Clients
  <2>1. None \notin Clients
    BY ClientsAssumption
  <2> QED BY <2>1
<1>1. /\ next[l] = (IF Len(q) = 0 THEN None ELSE q[1])
      /\ \A i \in 1..Len(q) : next[q[i]] = (IF i = Len(q) THEN None ELSE q[i + 1]) /\ q[i] # None
  BY <1>0 DEF Linked
<1> HIDE DEF N
<1>2. /\ G[0] = next[l]
      /\ \A n \in 1..N : n - 1 \in 0..N /\ G[n] = (IF G[n - 1] = None THEN None ELSE next[G[n - 1]])
  <2>1. G[0] = next[l]
    BY <1>0, <1>1
  <2>2. ASSUME NEW n \in 1..N
        PROVE  n - 1 \in 0..N /\ G[n] = (IF G[n - 1] = None THEN None ELSE next[G[n - 1]])
    <3>1. n - 1 \in 0..N /\ n \in 0..N /\ (n - 1) + 1 = n
      BY <1>0
    <3>2. CASE n < Len(q)
      <4>1. G[n] = q[n + 1] /\ G[n - 1] = q[n] /\ n \in 1..Len(q) /\ n # Len(q)
        BY <1>0, <3>1, <3>2
      <4> QED BY <1>1, <3>1, <4>1
    <3>3. CASE n = Len(q)
      <4>1. G[n] = None /\ G[n - 1] = q[n] /\ n \in 1..Len(q)
        BY <1>0, <3>1, <3>3
      <4> QED BY <1>1, <3>1, <3>3, <4>1
    <3>4. CASE n > Len(q)
      <4>1. G[n] = None /\ G[n - 1] = None
        BY <1>0, <3>1, <3>4
      <4> QED BY <3>1, <4>1
    <3> QED BY <1>0, <3>2, <3>3, <3>4
  <2> QED BY <2>1, <2>2
<1>3. G = Rec(G)
  <2> DEFINE H == Rec(G)
  <2>1. DOMAIN H = 0..N /\ DOMAIN G = 0..N
    OBVIOUS
  <2>2. \A n \in 0..N : G[n] = H[n]
    <3> TAKE n \in 0..N
    <3>0. n = 0 \/ n \in 1..N
      BY <1>0
    <3> HIDE DEF G
    <3> QED BY <1>2, <3>0
  <2>3. H = [n \in 0..N |-> H[n]] /\ G = [n \in 0..N |-> G[n]]
    OBVIOUS
  <2> HIDE DEF G, H
  <2>4. G = H
    BY <2>2, <2>3
  <2> QED BY <2>4 DEF H
<1>4. ASSUME NEW f, f = Rec(f) PROVE f = G
  <2> DEFINE S == {n \in 0..N : f[n] # G[n]}
  <2>1. CASE S # {}
    <3>1. S \in SUBSET Nat
      BY <1>0
    <3>2. PICK n \in S : \A y \in S : n <= y
      BY <2>1, <3>1, LeastOf
    <3>3. f[n] = IF n = 0 THEN next[l] ELSE IF f[n - 1] = None THEN None ELSE next[f[n - 1]]
      BY <1>4
    <3> HIDE DEF G
    <3>4. n # 0
      BY <1>2, <3>3
    <3>5. n \in 1..N /\ n - 1 \in 0..N /\ ~(n <= n - 1)
      BY <1>0, <3>4
    <3>6. f[n - 1] = G[n - 1]
      BY <3>2, <3>5
    <3> QED BY <1>2, <3>3, <3>5, <3>6
  <2>2. CASE S = {}
    <3>1. \A n \in 0..N : f[n] = G[n]
      BY <2>2
    <3>2. f = [n \in 0..N |-> f[n]]
      BY <1>4
    <3>3. G = [n \in 0..N |-> G[n]]
      OBVIOUS
    <3> HIDE DEF G
    <3> QED BY <3>1, <3>2, <3>3
  <2> QED BY <2>1, <2>2
<1> DEFINE at == CHOOSE f : f = Rec(f)
<1>5. at = Rec(at)
  <2> HIDE DEF Rec, G
  <2> QED BY <1>3
<1>6. at = G
  <2> HIDE DEF G, Rec, at
  <2> QED BY <1>4, <1>5
<1>7. Chain(l) = at
  BY DEF Chain, N
<1> QED BY <1>6, <1>7 DEF N

\* The clients of a list.
Members(q) == {q[i] : i \in 1..Len(q)}

\* A sequence in which no client is twice is not longer than there are clients.
LEMMA ShortEnough ==
  ASSUME NEW q \in Seq(Clients), \A i, j \in 1..Len(q) : q[i] = q[j] => i = j
  PROVE  Cardinality(Clients) \in Nat /\ Len(q) <= Cardinality(Clients)
<1>1. IsFiniteSet(Clients) /\ Cardinality(Clients) \in Nat
  BY ClientsAssumption, FS_CardinalityType
<1>2. Len(q) \in Nat /\ Cardinality(1..Len(q)) = Len(q)
  <2>1. Len(q) \in Nat
    OBVIOUS
  <2>2. Cardinality(1..Len(q)) = IF 1 > Len(q) THEN 0 ELSE Len(q) - 1 + 1
    BY <2>1, FS_Interval
  <2> QED BY <2>1, <2>2
<1>3. q \in Injection(1..Len(q), Clients)
  <2>1. q \in [1..Len(q) -> Clients]
    OBVIOUS
  <2> QED BY <2>1 DEF Injection, IsInjective
<1>4. Cardinality(1..Len(q)) <= Cardinality(Clients)
  BY <1>1, <1>3, FS_Injection
<1> QED BY <1>1, <1>2, <1>4

\* Lists that hold who has their flag are intact.
LEMMA IntactIf ==
  ASSUME NEW s, Arranged(next, me, s),
         \A l \in Lists : Members(s[l]) = {c \in Clients : Flag[l] \in flags[c] /\ ~Linking(c)}
  PROVE  ListsIntact
<1> SUFFICES ASSUME NEW l \in Lists
             PROVE  LET chain == Chain(l)
                        held  == {chain[n] : n \in DOMAIN chain} \ {None} IN
                    /\ chain[Cardinality(Clients)] = None
                    /\ held = {c \in Clients : Flag[l] \in flags[c] /\ ~Linking(c)}
                    /\ \A c \in held : next[me[c]] = c
  BY DEF ListsIntact
<1> DEFINE q == s[l]
           N == Cardinality(Clients)
           held == {Chain(l)[n] : n \in DOMAIN Chain(l)} \ {None}
<1>1. q \in Seq(Clients) /\ Linked(next, me, l, q) /\ \A i, j \in 1..Len(q) : q[i] = q[j] => i = j
  BY DEF Arranged, OncePlaced
<1>2. N \in Nat /\ Len(q) <= N /\ Len(q) \in Nat
  <2> HIDE DEF q
  <2> QED BY <1>1, ShortEnough
<1>3. Chain(l) = [n \in 0..N |-> IF n < Len(q) THEN q[n + 1] ELSE None]
  <2> HIDE DEF q
  <2> QED BY <1>1, <1>2, ChainOf
<1>4. Members(q) = {c \in Clients : Flag[l] \in flags[c] /\ ~Linking(c)}
  OBVIOUS
<1>5. None \notin Clients /\ \A i \in 1..Len(q) : q[i] \in Clients
  <2>1. None \notin Clients
    BY ClientsAssumption
  <2> QED BY <1>1, <2>1
<1> HIDE DEF N, q
<1>6. Chain(l)[N] = None
  BY <1>2, <1>3
<1>7. held = Members(q)
  <2>1. ASSUME NEW n \in DOMAIN Chain(l), Chain(l)[n] # None PROVE Chain(l)[n] \in Members(q)
    <3>1. n \in 0..N /\ Chain(l)[n] = IF n < Len(q) THEN q[n + 1] ELSE None
      BY <1>3
    <3>2. n + 1 \in 1..Len(q) /\ Chain(l)[n] = q[n + 1]
      BY <1>2, <2>1, <3>1
    <3> QED BY <3>2 DEF Members
  <2>2. ASSUME NEW i \in 1..Len(q) PROVE q[i] \in held
    <3> DEFINE n == i - 1
    <3>1. n \in 0..N /\ n < Len(q) /\ n + 1 = i
      BY <1>2
    <3> HIDE DEF n
    <3>2. n \in DOMAIN Chain(l) /\ Chain(l)[n] = q[i]
      BY <1>3, <3>1
    <3> QED BY <1>5, <3>2
  <2> HIDE DEF held
  <2>3. held \subseteq Members(q)
    BY <2>1 DEF held
  <2>4. Members(q) \subseteq held
    BY <2>2 DEF Members
  <2> QED BY <2>3, <2>4
<1>8. ASSUME NEW i \in 1..Len(q) PROVE next[me[q[i]]] = q[i]
  <2>1. /\ next[l] = (IF Len(q) = 0 THEN None ELSE q[1])
        /\ \A k \in 1..Len(q) : /\ next[q[k]] = (IF k = Len(q) THEN None ELSE q[k + 1])
                                /\ me[q[k]] = (IF k = 1 THEN l ELSE q[k - 1])
    BY <1>1 DEF Linked
  <2>2. CASE i = 1
    BY <1>2, <2>1, <2>2
  <2>3. CASE i # 1
    <3> DEFINE k == i - 1
    <3>1. k \in 1..Len(q) /\ k # Len(q) /\ k + 1 = i
      BY <1>2, <2>3
    <3> HIDE DEF k
    <3>2. me[q[i]] = q[k]
      BY <2>1, <2>3 DEF k
    <3> QED BY <2>1, <3>1, <3>2
  <2> QED BY <2>2, <2>3
<1>9. \A c \in held : next[me[c]] = c
  <2> HIDE DEF held
  <2> QED BY <1>7, <1>8 DEF Members
<1> HIDE DEF held
<1>10. held = {c \in Clients : Flag[l] \in flags[c] /\ ~Linking(c)}
  BY <1>4, <1>7
<1> QED BY <1>6, <1>9, <1>10 DEF N, held

\* The links make lists of which L says who is in each.
InPlace(n, m, L) ==
  \E s : Arranged(n, m, s) /\ L = [l \in Lists |-> Members(s[l])]

\* What follows of the links: the lists are disjoint, and next and me do not lead out of one.
LEMMA PlaceFacts ==
  ASSUME NEW n, NEW m, NEW L, InPlace(n, m, L)
  PROVE  /\ L \in [Lists -> SUBSET Clients]
         /\ \A l, k \in Lists : l # k => L[l] \cap L[k] = {}
         /\ \A l \in Lists : n[l] = None \/ n[l] \in L[l]
         /\ \A l \in Lists : \A c \in L[l] :
              (n[c] = None \/ n[c] \in L[l]) /\ (m[c] = l \/ m[c] \in L[l])
<1>1. PICK s : Arranged(n, m, s) /\ L = [l \in Lists |-> Members(s[l])]
  BY DEF InPlace
<1>2. /\ s \in [Lists -> Seq(Clients)] /\ OncePlaced(s)
      /\ \A l \in Lists : /\ Linked(n, m, l, s[l]) /\ Len(s[l]) \in Nat
                          /\ \A i \in 1..Len(s[l]) : s[l][i] \in Clients
  BY <1>1 DEF Arranged
<1>3. L \in [Lists -> SUBSET Clients]
  BY <1>1, <1>2 DEF Members
<1>4. ASSUME NEW l \in Lists, NEW k \in Lists, l # k PROVE L[l] \cap L[k] = {}
  BY <1>1, <1>2, <1>4 DEF Members, OncePlaced
<1>5. ASSUME NEW l \in Lists PROVE n[l] = None \/ n[l] \in L[l]
  <2>1. n[l] = (IF Len(s[l]) = 0 THEN None ELSE s[l][1])
    BY <1>2 DEF Linked
  <2>2. Len(s[l]) # 0 => 1 \in 1..Len(s[l])
    BY <1>2
  <2> QED BY <1>1, <2>1, <2>2 DEF Members
<1>6. ASSUME NEW l \in Lists, NEW c \in L[l]
      PROVE (n[c] = None \/ n[c] \in L[l]) /\ (m[c] = l \/ m[c] \in L[l])
  <2>1. PICK i \in 1..Len(s[l]) : c = s[l][i]
    BY <1>1 DEF Members
  <2>2. /\ n[c] = (IF i = Len(s[l]) THEN None ELSE s[l][i + 1])
        /\ m[c] = (IF i = 1 THEN l ELSE s[l][i - 1])
    BY <1>2, <2>1 DEF Linked
  <2>3. (i # Len(s[l]) => i + 1 \in 1..Len(s[l])) /\ (i # 1 => i - 1 \in 1..Len(s[l]))
    BY <1>2
  <2> QED BY <1>1, <2>2, <2>3 DEF Members
<1> QED BY <1>3, <1>4, <1>5, <1>6

\* GrabClient, of who is in the lists.
LEMMA GrabPlace ==
  ASSUME NEW n, NEW m, NEW n2, NEW m2, NEW L, InPlace(n, m, L),
         NEW l \in Lists, NEW c \in L[l], GrabbedIn(n, m, c, n2, m2)
  PROVE  InPlace(n2, m2, [L EXCEPT ![l] = @ \ {c}])
<1>1. PICK s : Arranged(n, m, s) /\ L = [k \in Lists |-> Members(s[k])]
  BY DEF InPlace
<1>2. PICK p \in 1..Len(s[l]) : c = s[l][p]
  BY <1>1 DEF Members
<1> DEFINE w == Without(s[l], p)
           r == [s EXCEPT ![l] = w]
<1>3. Arranged(n2, m2, r)
  BY <1>1, <1>2, GrabKeeps
<1>4. /\ s \in [Lists -> Seq(Clients)] /\ s[l] \in Seq(Clients)
      /\ \A i, j \in 1..Len(s[l]) : s[l][i] = s[l][j] => i = j
  BY <1>1 DEF Arranged, OncePlaced
<1>5. /\ Len(w) = Len(s[l]) - 1 /\ Len(s[l]) \in Nat
      /\ \A i \in 1..(Len(s[l]) - 1) :
              /\ i < p => w[i] = s[l][i] /\ i \in 1..Len(s[l])
              /\ ~(i < p) => w[i] = s[l][i + 1] /\ i + 1 \in 1..Len(s[l])
  BY <1>4, WithoutIs
<1>6. r[l] = w /\ \A k \in Lists \ {l} : r[k] = s[k]
  BY <1>4
<1> HIDE DEF w, r
<1>7. Members(w) = Members(s[l]) \ {c}
  <2>1. ASSUME NEW i \in 1..Len(w) PROVE w[i] \in Members(s[l]) \ {c}
    <3>1. CASE i < p
      <4>1. w[i] = s[l][i] /\ i \in 1..Len(s[l]) /\ i # p
        BY <1>5, <3>1
      <4> QED BY <1>2, <1>4, <4>1 DEF Members
    <3>2. CASE ~(i < p)
      <4>1. w[i] = s[l][i + 1] /\ i + 1 \in 1..Len(s[l]) /\ i + 1 # p
        BY <1>5, <3>2
      <4> QED BY <1>2, <1>4, <4>1 DEF Members
    <3> QED BY <3>1, <3>2
  <2>2. ASSUME NEW i \in 1..Len(s[l]), i # p PROVE s[l][i] \in Members(w)
    <3>1. CASE i < p
      <4>1. i \in 1..Len(w) /\ w[i] = s[l][i]
        BY <1>5, <3>1
      <4> QED BY <4>1 DEF Members
    <3>2. CASE i > p
      <4> DEFINE j == i - 1
      <4>1. j \in 1..(Len(s[l]) - 1) /\ ~(j < p) /\ j + 1 = i
        BY <1>5, <3>2
      <4> HIDE DEF j
      <4>2. j \in 1..Len(w) /\ w[j] = s[l][i]
        BY <1>5, <4>1
      <4> QED BY <4>2 DEF Members
    <3> QED BY <1>5, <2>2, <3>1, <3>2
  <2> QED BY <1>2, <2>1, <2>2 DEF Members
<1>8. [L EXCEPT ![l] = @ \ {c}] = [k \in Lists |-> Members(r[k])]
  BY <1>1, <1>6, <1>7
<1> QED BY <1>3, <1>8 DEF InPlace

\* A client that is in no list is put before the first of l.
LEMMA AddPlace ==
  ASSUME NEW n, NEW m, NEW n2, NEW m2, NEW L, InPlace(n, m, L),
         NEW l \in Lists, NEW c \in Clients, \A k \in Lists : c \notin L[k],
         AddedIn(n, m, l, c, n2, m2)
  PROVE  InPlace(n2, m2, [L EXCEPT ![l] = @ \cup {c}])
<1>1. PICK s : Arranged(n, m, s) /\ L = [k \in Lists |-> Members(s[k])]
  BY DEF InPlace
<1> DEFINE w == Pushed(c, s[l])
           r == [s EXCEPT ![l] = w]
<1>2. Nowhere(s, c)
  BY <1>1 DEF Nowhere, Members
<1>3. Arranged(n2, m2, r)
  BY <1>1, <1>2, AddKeeps
<1>4. s \in [Lists -> Seq(Clients)] /\ s[l] \in Seq(Clients)
  BY <1>1 DEF Arranged
<1>5. /\ Len(w) = Len(s[l]) + 1 /\ Len(s[l]) \in Nat /\ w[1] = c
      /\ \A i \in 1..Len(s[l]) : w[i + 1] = s[l][i]
      /\ \A i \in 1..(Len(s[l]) + 1) : i # 1 => w[i] = s[l][i - 1] /\ i - 1 \in 1..Len(s[l])
  <2> DEFINE q == s[l]
  <2>1. q \in Seq(Clients) /\ Len(q) \in Nat
    BY <1>4
  <2> HIDE DEF q
  <2>2. /\ Len(Pushed(c, q)) = Len(q) + 1 /\ Pushed(c, q)[1] = c
        /\ \A i \in 1..Len(q) : Pushed(c, q)[i + 1] = q[i]
        /\ \A i \in 1..(Len(q) + 1) : i # 1 => Pushed(c, q)[i] = q[i - 1] /\ i - 1 \in 1..Len(q)
    BY <2>1, PushedIs
  <2> QED BY <2>1, <2>2 DEF q
<1>6. r[l] = w /\ \A k \in Lists \ {l} : r[k] = s[k]
  BY <1>4
<1> HIDE DEF w, r
<1>7. Members(w) = Members(s[l]) \cup {c}
  <2>1. ASSUME NEW i \in 1..Len(w) PROVE w[i] \in Members(s[l]) \cup {c}
    BY <1>5 DEF Members
  <2>2. ASSUME NEW i \in 1..Len(s[l]) PROVE s[l][i] \in Members(w)
    <3>1. i + 1 \in 1..Len(w) /\ w[i + 1] = s[l][i]
      BY <1>5
    <3> QED BY <3>1 DEF Members
  <2>3. 1 \in 1..Len(w) /\ w[1] = c
    BY <1>5
  <2> QED BY <2>1, <2>2, <2>3, SMTT(30) DEF Members
<1>8. [L EXCEPT ![l] = @ \cup {c}] = [k \in Lists |-> Members(r[k])]
  BY <1>1, <1>6, <1>7
<1> QED BY <1>3, <1>8 DEF InPlace

\* Links of clients that are in no list do not count.
LEMMA SamePlace ==
  ASSUME NEW n, NEW m, NEW n2, NEW m2, NEW L, InPlace(n, m, L),
         \A l \in Lists : n2[l] = n[l] /\ \A c \in L[l] : n2[c] = n[c] /\ m2[c] = m[c]
  PROVE  InPlace(n2, m2, L)
<1>1. PICK s : Arranged(n, m, s) /\ L = [k \in Lists |-> Members(s[k])]
  BY DEF InPlace
<1>2. ASSUME NEW l \in Lists PROVE Linked(n2, m2, l, s[l])
  <2>1. n2[l] = n[l] /\ \A i \in 1..Len(s[l]) : n2[s[l][i]] = n[s[l][i]] /\ m2[s[l][i]] = m[s[l][i]]
    BY <1>1 DEF Members
  <2>2. Linked(n, m, l, s[l])
    BY <1>1 DEF Arranged
  <2> QED BY <2>1, <2>2 DEF Linked
<1>3. Arranged(n2, m2, s)
  BY <1>1, <1>2 DEF Arranged
<1> QED BY <1>1, <1>3 DEF InPlace

\* The links are defined for the lists and for every client.
LinksType(n, m) == n \in [Lists \cup Clients -> Clients \cup {None}] /\ m \in [Clients -> Lists \cup Clients]

\* MoveTo moves a client from the list it is in to l; the links of a client that is in no list
\* are not touched.
LEMMA MoveKeeps ==
  ASSUME LinksType(next, me), NEW L, InPlace(next, me, L),
         NEW k \in Lists, NEW c \in L[k], NEW l \in Lists, MoveTo(l, c)
  PROVE  /\ LinksType(next', me')
         /\ InPlace(next', me', [h \in Lists |-> IF h = l THEN (L[h] \ {c}) \cup {c} ELSE L[h] \ {c}])
         /\ \A h \in Lists \ {k, l} : next'[h] = next[h]
         /\ \A x \in Clients : (\A h \in Lists : x \notin L[h]) => next'[x] = next[x] /\ me'[x] = me[x]
<1> DEFINE g == Grabbed(c)
           M == [L EXCEPT ![k] = @ \ {c}]
           W == [h \in Lists |-> IF h = l THEN (L[h] \ {c}) \cup {c} ELSE L[h] \ {c}]
<1>0. Lists \cap Clients = {} /\ None \notin Clients /\ None \notin Lists
  BY ClientsAssumption
<1>1. /\ L \in [Lists -> SUBSET Clients] /\ c \in Clients
      /\ \A h, j \in Lists : h # j => L[h] \cap L[j] = {}
      /\ (next[c] = None \/ next[c] \in L[k]) /\ (me[c] = k \/ me[c] \in L[k])
  BY PlaceFacts
<1>2. LinksType(g.next, g.me) /\ GrabbedIn(next, me, c, g.next, g.me)
  BY <1>0, <1>1 DEF LinksType, GrabbedIn, Grabbed
<1>3. InPlace(g.next, g.me, M)
  <2> HIDE DEF g
  <2> QED BY <1>2, GrabPlace
<1>4. /\ \A h \in Lists \ {k} : g.next[h] = next[h]
      /\ \A x \in Clients : (\A h \in Lists : x \notin L[h]) => g.next[x] = next[x] /\ g.me[x] = me[x]
  <2> HIDE DEF g
  <2> QED BY <1>0, <1>1, <1>2 DEF GrabbedIn, LinksType
<1>5. M \in [Lists -> SUBSET Clients] /\ \A h \in Lists : M[h] = L[h] \ {c} /\ c \notin M[h]
  BY <1>1
<1>6. g.next[l] = None \/ g.next[l] \in M[l]
  <2> HIDE DEF g, M
  <2> QED BY <1>3, PlaceFacts
<1>7. /\ next' = Added(g, l, c).next /\ me' = Added(g, l, c).me
  BY DEF MoveTo
<1> HIDE DEF g, M
<1>8. LinksType(next', me') /\ AddedIn(g.next, g.me, l, c, next', me')
  BY <1>0, <1>1, <1>2, <1>5, <1>6, <1>7, SMTT(30) DEF LinksType, AddedIn, Added
<1>9. InPlace(next', me', [M EXCEPT ![l] = @ \cup {c}])
  BY <1>1, <1>3, <1>5, <1>8, AddPlace
<1>10. [M EXCEPT ![l] = @ \cup {c}] = W
  BY <1>5
<1>11. \A h \in Lists \ {k, l} : next'[h] = next[h]
  BY <1>0, <1>1, <1>4, <1>8 DEF AddedIn
<1>12. ASSUME NEW x \in Clients, \A h \in Lists : x \notin L[h]
       PROVE next'[x] = next[x] /\ me'[x] = me[x]
  BY <1>0, <1>1, <1>4, <1>5, <1>6, <1>8, <1>12 DEF AddedIn
<1> QED BY <1>8, <1>9, <1>10, <1>11, <1>12
=============================================================================
