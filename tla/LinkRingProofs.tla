--------------------------- MODULE LinkRingProofs ---------------------------
(***************************************************************************)
(* What the functions of LinkRing do to the links in a ring, for rings of  *)
(* every size, wherever they wrap.                                         *)
(***************************************************************************)
EXTENDS LinkRing, TLAPS

\* The length of a ring is less than its places.
LEMMA LengthOfRing ==
  ASSUME NEW r, HasPlaces(r)
  PROVE  /\ Length(r) \in 0..(r.cnt - 1)
         /\ Empty(r) <=> Length(r) = 0
         /\ Full(r) <=> Length(r) = r.cnt - 1
BY DEF HasPlaces, Length, Empty, Full, After

\* The places that are used are places of the ring.
LEMMA PlacesOfRing ==
  ASSUME NEW r, HasPlaces(r), NEW i \in 0..(r.cnt - 1)
  PROVE  /\ At(r, i) \in 0..(r.cnt - 1)
         /\ After(r, i) \in 0..(r.cnt - 1)
         /\ Before(r, i) \in 0..(r.cnt - 1)
BY DEF HasPlaces, At, After, Before

\* The contents of a ring are a sequence of links, as long as the ring.
LEMMA ContentsOfRing ==
  ASSUME NEW r, IsRing(r)
  PROVE  /\ Contents(r) \in Seq(Links)
         /\ Len(Contents(r)) = Length(r)
         /\ \A i \in 1..Length(r) : Contents(r)[i] = r.node[At(r, i - 1)]
<1>1. Length(r) \in Nat
  BY LengthOfRing DEF IsRing, HasPlaces
<1>2. \A i \in 1..Length(r) : r.node[At(r, i - 1)] \in Links
  BY <1>1 DEF IsRing
<1>3. Contents(r) \in [1..Length(r) -> Links]
  BY <1>2 DEF Contents
<1>4. Contents(r) \in Seq(Links)
  BY <1>1, <1>3
<1>5. Len(Contents(r)) = Length(r)
  BY <1>1, <1>3
<1> QED BY <1>4, <1>5 DEF Contents

\* A ring that is created is a ring, with nothing in it.
LEMMA CreatedIsRing ==
  ASSUME NEW n \in Nat \ {0, 1}
  PROVE  IsRing(Created(n)) /\ Contents(Created(n)) = <<>>
<1> DEFINE r == Created(n)
<1>1. /\ r.cnt = n /\ r.top = 0 /\ r.bottom = 0
      /\ r.node = [i \in 0..(n - 1) |-> NoLink]
  BY DEF Created, Ring
<1> HIDE DEF r
<1>2. Length(r) = 0
  BY <1>1 DEF Length
<1>3. IsRing(r)
  BY <1>1, <1>2 DEF IsRing, HasPlaces
<1>4. Len(Contents(r)) = 0 /\ Contents(r) \in Seq(Links)
  BY <1>2, <1>3, ContentsOfRing
<1> QED BY <1>3, <1>4 DEF r

\* A link that is put at the top of a ring that is not full is its last one.
LEMMA AtTopOfRing ==
  ASSUME NEW r, IsRing(r), ~Full(r), NEW l \in Links
  PROVE  /\ IsRing(AtTop(r, l))
         /\ Contents(AtTop(r, l)) = Append(Contents(r), l)
<1> DEFINE s == AtTop(r, l)
<1>1. /\ s.cnt = r.cnt /\ s.bottom = r.bottom /\ s.top = After(r, r.top)
      /\ s.node = [r.node EXCEPT ![r.top] = l]
  BY DEF AtTop, Ring
<1> HIDE DEF s
<1>2. HasPlaces(r)
  BY DEF IsRing
<1>3. /\ Length(s) = Length(r) + 1 /\ Length(r) \in Nat
      /\ HasPlaces(s) /\ At(s, Length(r)) = r.top
  BY <1>1, <1>2 DEF HasPlaces, Length, After, Full, At
<1>4. \A i \in 0..(Length(r) - 1) : At(s, i) = At(r, i) /\ At(r, i) # r.top /\ At(r, i) \in 0..(r.cnt - 1)
  BY <1>1, <1>2 DEF HasPlaces, Length, At
<1>5. \A i \in 0..(Length(r) - 1) : s.node[At(s, i)] = r.node[At(r, i)]
  BY <1>1, <1>4 DEF IsRing
<1>6. s.node[At(s, Length(r))] = l
  BY <1>1, <1>2, <1>3 DEF IsRing, HasPlaces
<1>7. IsRing(s)
  <2>1. \A i \in 0..(Length(s) - 1) : s.node[At(s, i)] \in Links
    BY <1>3, <1>5, <1>6 DEF IsRing
  <2>2. s.node \in [0..(s.cnt - 1) -> Links \cup {NoLink}]
    BY <1>1 DEF IsRing
  <2> QED BY <1>3, <2>1, <2>2 DEF IsRing
<1>8. /\ Contents(s) \in Seq(Links) /\ Len(Contents(s)) = Length(r) + 1
      /\ \A i \in 1..(Length(r) + 1) : Contents(s)[i] = s.node[At(s, i - 1)]
  BY <1>3, <1>7, ContentsOfRing
<1>9. /\ Contents(r) \in Seq(Links) /\ Len(Contents(r)) = Length(r)
      /\ \A i \in 1..Length(r) : Contents(r)[i] = r.node[At(r, i - 1)]
  BY ContentsOfRing
<1>10. \A i \in 1..(Length(r) + 1) : Contents(s)[i] = Append(Contents(r), l)[i]
  <2> TAKE i \in 1..(Length(r) + 1)
  <2>1. CASE i = Length(r) + 1
    BY <2>1, <1>3, <1>6, <1>8, <1>9
  <2>2. CASE i # Length(r) + 1
    <3>1. i \in 1..Length(r) /\ i - 1 \in 0..(Length(r) - 1)
      BY <2>2, <1>3
    <3> QED BY <3>1, <1>3, <1>5, <1>8, <1>9
  <2> QED BY <2>1, <2>2
<1> QED BY <1>3, <1>7, <1>8, <1>9, <1>10 DEF s

\* A link that is put at the bottom of a ring that is not full is its first one.
LEMMA AtBottomOfRing ==
  ASSUME NEW r, IsRing(r), ~Full(r), NEW l \in Links
  PROVE  /\ IsRing(AtBottom(r, l))
         /\ Contents(AtBottom(r, l)) = <<l>> \o Contents(r)
<1> DEFINE s == AtBottom(r, l)
           o == Before(r, r.bottom)
<1>1. /\ s.cnt = r.cnt /\ s.bottom = o /\ s.top = r.top
      /\ s.node = [r.node EXCEPT ![o] = l]
  BY DEF AtBottom, Ring
<1>2. HasPlaces(r)
  BY DEF IsRing
<1>3. /\ o \in 0..(r.cnt - 1) /\ Length(r) \in Nat
      /\ o = IF r.bottom = 0 THEN r.cnt - 1 ELSE r.bottom - 1
  BY <1>2, LengthOfRing, PlacesOfRing DEF HasPlaces, Before
<1> HIDE DEF s, o
<1>4. /\ Length(s) = Length(r) + 1 /\ HasPlaces(s) /\ At(s, 0) = o
  BY <1>1, <1>2, <1>3 DEF HasPlaces, Length, After, Full, At
<1>5. \A i \in 0..(Length(r) - 1) : At(s, i + 1) = At(r, i) /\ At(r, i) # o /\ At(r, i) \in 0..(r.cnt - 1)
  BY <1>1, <1>2, <1>3 DEF HasPlaces, Length, At, Full, After
<1>6. \A i \in 0..(Length(r) - 1) : s.node[At(s, i + 1)] = r.node[At(r, i)]
  BY <1>1, <1>5 DEF IsRing
<1>7. s.node[At(s, 0)] = l
  BY <1>1, <1>3, <1>4 DEF IsRing
<1>8. IsRing(s)
  <2>1. \A i \in 0..(Length(s) - 1) : s.node[At(s, i)] \in Links
    <3> TAKE i \in 0..(Length(s) - 1)
    <3>1. CASE i = 0
      BY <3>1, <1>7
    <3>2. CASE i # 0
      <4>1. i - 1 \in 0..(Length(r) - 1) /\ (i - 1) + 1 = i
        BY <3>2, <1>3, <1>4
      <4>2. s.node[At(s, i)] = r.node[At(r, i - 1)]
        BY <4>1, <1>6
      <4> QED BY <4>1, <4>2 DEF IsRing
    <3> QED BY <3>1, <3>2
  <2>2. s.node \in [0..(s.cnt - 1) -> Links \cup {NoLink}]
    BY <1>1 DEF IsRing
  <2> QED BY <1>4, <2>1, <2>2 DEF IsRing
<1>9. /\ Contents(s) \in Seq(Links) /\ Len(Contents(s)) = Length(r) + 1
      /\ \A i \in 1..(Length(r) + 1) : Contents(s)[i] = s.node[At(s, i - 1)]
  BY <1>4, <1>8, ContentsOfRing
<1>10. /\ Contents(r) \in Seq(Links) /\ Len(Contents(r)) = Length(r)
       /\ \A i \in 1..Length(r) : Contents(r)[i] = r.node[At(r, i - 1)]
  BY ContentsOfRing
<1> DEFINE q == <<l>> \o Contents(r)
<1>11. /\ q \in Seq(Links) /\ Len(q) = Length(r) + 1 /\ q[1] = l
       /\ \A i \in 1..Length(r) : q[i + 1] = Contents(r)[i]
  BY <1>3, <1>10
<1> HIDE DEF q
<1>12. \A i \in 1..(Length(r) + 1) : Contents(s)[i] = q[i]
  <2> TAKE i \in 1..(Length(r) + 1)
  <2>1. CASE i = 1
    BY <2>1, <1>7, <1>9, <1>11
  <2>2. CASE i # 1
    <3>1. PICK j \in 1..Length(r) : i = j + 1
      BY <2>2, <1>3
    <3>2. j - 1 \in 0..(Length(r) - 1) /\ i - 1 = (j - 1) + 1
      BY <3>1, <1>3
    <3>3. s.node[At(s, i - 1)] = r.node[At(r, j - 1)]
      BY <3>2, <1>6
    <3> QED BY <3>1, <3>3, <1>9, <1>10, <1>11
  <2> QED BY <2>1, <2>2
<1> QED BY <1>3, <1>8, <1>9, <1>11, <1>12 DEF s, q

\* What leaves a ring at its bottom was its first link.
LEMMA WithoutBottomOfRing ==
  ASSUME NEW r, IsRing(r), ~Empty(r)
  PROVE  /\ IsRing(WithoutBottom(r))
         /\ Contents(r) # <<>> /\ r.node[r.bottom] = Head(Contents(r))
         /\ Contents(WithoutBottom(r)) = Tail(Contents(r))
<1> DEFINE s == WithoutBottom(r)
<1>1. s.cnt = r.cnt /\ s.bottom = After(r, r.bottom) /\ s.top = r.top /\ s.node = r.node
  BY DEF WithoutBottom, Ring
<1> HIDE DEF s
<1>2. HasPlaces(r)
  BY DEF IsRing
<1>3. /\ Length(s) = Length(r) - 1 /\ Length(s) \in Nat /\ HasPlaces(s) /\ At(r, 0) = r.bottom
      /\ \A i \in 0..(Length(s) - 1) : At(s, i) = At(r, i + 1)
  BY <1>1, <1>2 DEF HasPlaces, Length, After, Empty, At
<1>4. IsRing(s)
  <2>1. \A i \in 0..(Length(s) - 1) : i + 1 \in 0..(Length(r) - 1)
    BY <1>3
  <2>2. \A i \in 0..(Length(s) - 1) : s.node[At(s, i)] \in Links
    BY <1>1, <1>3, <2>1 DEF IsRing
  <2> QED BY <1>1, <1>3, <2>2 DEF IsRing
<1>5. /\ Contents(s) \in Seq(Links) /\ Len(Contents(s)) = Length(s)
      /\ \A i \in 1..Length(s) : Contents(s)[i] = s.node[At(s, i - 1)]
  BY <1>4, ContentsOfRing
<1>6. /\ Contents(r) \in Seq(Links) /\ Len(Contents(r)) = Length(s) + 1
      /\ \A i \in 1..(Length(s) + 1) : Contents(r)[i] = r.node[At(r, i - 1)]
  BY <1>3, LengthOfRing, <1>2, ContentsOfRing
<1>7. /\ Contents(r) # <<>> /\ Head(Contents(r)) = Contents(r)[1]
      /\ Tail(Contents(r)) \in Seq(Links) /\ Len(Tail(Contents(r))) = Length(s)
      /\ \A i \in 1..Length(s) : Tail(Contents(r))[i] = Contents(r)[i + 1]
  BY <1>3, <1>6
<1>8. Contents(r)[1] = r.node[r.bottom]
  BY <1>3, <1>6
<1>9. \A i \in 1..Length(s) : Contents(s)[i] = Tail(Contents(r))[i]
  <2> TAKE i \in 1..Length(s)
  <2>1. i - 1 \in 0..(Length(s) - 1) /\ (i - 1) + 1 = i /\ (i + 1) - 1 = i /\ i + 1 \in 1..(Length(s) + 1)
    BY <1>3
  <2>2. At(s, i - 1) = At(r, i)
    BY <1>3, <2>1
  <2> QED BY <1>1, <1>5, <1>6, <1>7, <2>1, <2>2, SMTT(30)
<1> QED BY <1>3, <1>4, <1>5, <1>7, <1>8, <1>9 DEF s

\* What leaves a ring at its top was its last link.
LEMMA WithoutTopOfRing ==
  ASSUME NEW r, IsRing(r), ~Empty(r)
  PROVE  /\ IsRing(WithoutTop(r))
         /\ Contents(r) # <<>> /\ r.node[Before(r, r.top)] = Contents(r)[Len(Contents(r))]
         /\ Contents(WithoutTop(r)) = SubSeq(Contents(r), 1, Len(Contents(r)) - 1)
<1> DEFINE s == WithoutTop(r)
<1>1. s.cnt = r.cnt /\ s.bottom = r.bottom /\ s.top = Before(r, r.top) /\ s.node = r.node
  BY DEF WithoutTop, Ring
<1> HIDE DEF s
<1>2. HasPlaces(r)
  BY DEF IsRing
<1>3. /\ Length(s) = Length(r) - 1 /\ Length(s) \in Nat /\ HasPlaces(s)
      /\ At(r, Length(s)) = Before(r, r.top)
      /\ \A i \in 0..(Length(s) - 1) : At(s, i) = At(r, i)
  BY <1>1, <1>2 DEF HasPlaces, Length, Before, Empty, At
<1>4. IsRing(s)
  <2>1. \A i \in 0..(Length(s) - 1) : s.node[At(s, i)] \in Links
    BY <1>1, <1>3 DEF IsRing
  <2> QED BY <1>1, <1>3, <2>1 DEF IsRing
<1>5. /\ Contents(s) \in Seq(Links) /\ Len(Contents(s)) = Length(s)
      /\ \A i \in 1..Length(s) : Contents(s)[i] = s.node[At(s, i - 1)]
  BY <1>4, ContentsOfRing
<1>6. /\ Contents(r) \in Seq(Links) /\ Len(Contents(r)) = Length(s) + 1
      /\ \A i \in 1..(Length(s) + 1) : Contents(r)[i] = r.node[At(r, i - 1)]
  BY <1>3, LengthOfRing, <1>2, ContentsOfRing
<1> DEFINE q == SubSeq(Contents(r), 1, Len(Contents(r)) - 1)
<1>7. /\ Contents(r) # <<>> /\ q \in Seq(Links) /\ Len(q) = Length(s)
      /\ \A i \in 1..Length(s) : q[i] = Contents(r)[i]
  BY <1>3, <1>6
<1> HIDE DEF q
<1>8. Contents(r)[Len(Contents(r))] = r.node[Before(r, r.top)]
  BY <1>3, <1>6
<1>9. \A i \in 1..Length(s) : Contents(s)[i] = q[i]
  <2> TAKE i \in 1..Length(s)
  <2>1. i - 1 \in 0..(Length(s) - 1) /\ i \in 1..(Length(s) + 1)
    BY <1>3
  <2> QED BY <1>1, <1>3, <1>5, <1>6, <1>7, <2>1
<1> QED BY <1>3, <1>4, <1>5, <1>7, <1>8, <1>9 DEF s, q

\* A ring that is emptied is a ring, with nothing in it.
LEMMA EmptiedOfRing ==
  ASSUME NEW r, IsRing(r)
  PROVE  IsRing(Emptied(r)) /\ Contents(Emptied(r)) = <<>>
<1> DEFINE s == Emptied(r)
<1>1. s.cnt = r.cnt /\ s.bottom = 0 /\ s.top = 0 /\ s.node = r.node
  BY DEF Emptied, Ring
<1> HIDE DEF s
<1>2. Length(s) = 0 /\ HasPlaces(s)
  BY <1>1 DEF Length, IsRing, HasPlaces
<1>3. IsRing(s)
  BY <1>1, <1>2 DEF IsRing
<1>4. Len(Contents(s)) = 0 /\ Contents(s) \in Seq(Links)
  BY <1>2, <1>3, ContentsOfRing
<1> QED BY <1>3, <1>4 DEF s

\* The larger ring has the links of the full one, in their order, and room for another,
\* wherever the full one wrapped.
LEMMA ExpandedOfRing ==
  ASSUME NEW r, IsRing(r)
  PROVE  /\ IsRing(Expanded(r)) /\ ~Full(Expanded(r))
         /\ Contents(Expanded(r)) = Contents(r)
<1> DEFINE s == Expanded(r)
           n == Length(r)
<1> USE RingAssumption
<1>1. /\ s.cnt = r.cnt + ExpandBy /\ s.bottom = 0 /\ s.top = n
      /\ s.node = [i \in 0..(r.cnt + ExpandBy - 1) |-> IF i < n THEN Copied(r, i) ELSE NoLink]
  BY DEF Expanded, Ring
<1>2. HasPlaces(r)
  BY DEF IsRing
<1>3. n \in 0..(r.cnt - 1)
  BY <1>2, LengthOfRing
<1>4. \A i \in 0..(n - 1) : Copied(r, i) = r.node[At(r, i)]
  BY <1>2 DEF HasPlaces, Length, FirstPart, At, Copied
<1>5. \A i \in 0..(n - 1) : r.node[At(r, i)] \in Links
  BY DEF IsRing
<1> HIDE DEF s, n
<1>6. HasPlaces(s) /\ Length(s) = n /\ \A i \in 0..(n - 1) : At(s, i) = i
  BY <1>1, <1>2, <1>3 DEF HasPlaces, Length, At
<1>7. \A i \in 0..(n - 1) : s.node[i] = r.node[At(r, i)]
  BY <1>1, <1>2, <1>3, <1>4 DEF HasPlaces
<1>8. s.node \in [0..(s.cnt - 1) -> Links \cup {NoLink}]
  <2>1. \A i \in 0..(r.cnt + ExpandBy - 1) : i < n => Copied(r, i) \in Links
    BY <1>2, <1>3, <1>4, <1>5 DEF HasPlaces
  <2>2. s.node \in [0..(r.cnt + ExpandBy - 1) -> Links \cup {NoLink}]
    BY <2>1, <1>1
  <2>3. s.cnt - 1 = r.cnt + ExpandBy - 1
    BY <1>1, <1>2 DEF HasPlaces
  <2> QED BY <2>2, <2>3
<1>9. IsRing(s)
  BY <1>5, <1>6, <1>7, <1>8 DEF IsRing
<1>10. ~Full(s)
  BY <1>1, <1>2, <1>3 DEF HasPlaces, Full, After
<1>11. /\ Contents(s) \in Seq(Links) /\ Len(Contents(s)) = n
       /\ \A i \in 1..n : Contents(s)[i] = s.node[At(s, i - 1)]
  BY <1>6, <1>9, ContentsOfRing
<1>12. /\ Contents(r) \in Seq(Links) /\ Len(Contents(r)) = n
       /\ \A i \in 1..n : Contents(r)[i] = r.node[At(r, i - 1)]
  BY ContentsOfRing DEF n
<1>13. \A i \in 1..n : Contents(s)[i] = Contents(r)[i]
  <2> TAKE i \in 1..n
  <2>1. i - 1 \in 0..(n - 1)
    BY <1>2, <1>3 DEF HasPlaces
  <2> QED BY <2>1, <1>6, <1>7, <1>11, <1>12
<1>14. n \in Nat
  BY <1>2, <1>3 DEF HasPlaces
<1> QED BY <1>9, <1>10, <1>11, <1>12, <1>13, <1>14 DEF s

\* The i-th link is found from either end, and nothing where there is none.
LEMMA PeekedOfRing ==
  ASSUME NEW r, IsRing(r), NEW i \in Int
  PROVE  LET q == Contents(r)
             j == IF i >= 0 THEN i + 1 ELSE Len(q) + 1 + i
         IN  Peeked(r, i) = IF j \in 1..Len(q) THEN q[j] ELSE NoLink
<1>1. Length(r) \in Nat
  BY LengthOfRing DEF IsRing, HasPlaces
<1>2. /\ Len(Contents(r)) = Length(r)
      /\ \A j \in 1..Length(r) : Contents(r)[j] = r.node[At(r, j - 1)]
  BY ContentsOfRing
<1>3. CASE i >= 0
  <2>1. i + 1 \in 1..Length(r) <=> i < Length(r)
    BY <1>1, <1>3
  <2>2. (i + 1) - 1 = i
    OBVIOUS
  <2> QED BY <1>2, <1>3, <2>1, <2>2 DEF Peeked
<1>4. CASE ~(i >= 0)
  <2>1. Length(r) + 1 + i \in 1..Length(r) <=> -i <= Length(r)
    BY <1>1, <1>4
  <2>2. (Length(r) + 1 + i) - 1 = Length(r) + i
    BY <1>1
  <2> QED BY <1>2, <1>4, <2>1, <2>2 DEF Peeked
<1> QED BY <1>3, <1>4
=============================================================================
