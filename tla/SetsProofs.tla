----------------------------- MODULE SetsProofs -----------------------------
(***************************************************************************)
(* Theorems about Sets, for any number of units to a block and of blocks,  *)
(* and their proofs.                                                       *)
(***************************************************************************)
EXTENDS Sets, FiniteSetTheorems, WellFoundedInduction, TLAPS

(***************************************************************************)
(* Numbers                                                                 *)
(***************************************************************************)
\* A set of natural numbers that is not empty has a least one.
LEMMA LeastOf ==
  ASSUME NEW S \in SUBSET Nat, S # {}
  PROVE  Least(S) \in S /\ \A y \in S : Least(S) <= y
<1> DEFINE R == {ss \in Nat \X Nat : ss[1] < ss[2]}
<1>1. \E x \in S : \A y \in S : ~(<<y, x>> \in R)
  <2>1. IsWellFoundedOn(R, Nat)
    BY NatLessThanWellFounded DEF OpToRel
  <2> HIDE DEF R
  <2> QED BY <2>1, WFMin
<1>2. ASSUME NEW x \in Nat, NEW y \in Nat, y < x
      PROVE  <<y, x>> \in R
  <2>1. <<y, x>> \in Nat \X Nat /\ <<y, x>>[1] < <<y, x>>[2]
    BY <1>2
  <2> QED BY <2>1
<1>3. PICK x \in S : \A y \in S : ~(<<y, x>> \in R)
  BY <1>1
<1> HIDE DEF R
<1>4. ASSUME NEW y \in S PROVE x <= y
  <2>1. x \in Nat /\ y \in Nat /\ (y < x => <<y, x>> \in R)
    BY <1>2
  <2> QED BY <1>3, <2>1
<1> QED BY <1>3, <1>4 DEF Least

LEMMA TimesOrdered ==
  ASSUME NEW x \in Nat, NEW a \in Nat, NEW b \in Nat, a + 1 <= b
  PROVE  x * a + x <= x * b /\ x * a \in Nat
<1>1. x * (a + 1) <= x * b
  OBVIOUS
<1>2. x * (a + 1) = x * a + x /\ x * a \in Nat
  OBVIOUS
<1> QED BY <1>1, <1>2

\* The units of a number of blocks end before those of a larger number begin.
LEMMA BlocksApart ==
  ASSUME NEW a \in Nat, NEW b \in Nat, a < b
  PROVE  PerSet * a + PerSet <= PerSet * b /\ PerSet * a \in Nat
<1>1. PerSet \in Nat /\ a + 1 <= b
  BY SetsAssumption
<1> QED BY <1>1, TimesOrdered

LEMMA DivisionOf ==
  ASSUME NEW i \in Nat
  PROVE  /\ i \div PerSet \in Nat /\ i % PerSet \in Places
         /\ i = PerSet * (i \div PerSet) + (i % PerSet)
<1>1. PerSet \in Nat \ {0}
  BY SetsAssumption
<1> QED BY <1>1 DEF Places

\* A count that stays in its width is not cut.
LEMMA CountsFit ==
  ASSUME NEW x \in 0..PerSet
  PROVE  x % CountMod = x /\ x \in Counts
<1>1. PerSet \in Nat /\ CountMod \in Nat /\ CountMod > 2 * PerSet
  BY SetsAssumption
<1> QED BY <1>1 DEF Counts

LEMMA CountsAreCut ==
  ASSUME NEW x \in Int
  PROVE  x % CountMod \in Counts
<1>1. CountMod \in Nat \ {0}
  BY SetsAssumption
<1> QED BY <1>1 DEF Counts

LEMMA PlacesCounted ==
  /\ IsFiniteSet(Places) /\ Cardinality(Places) = PerSet /\ 0 \in Places
  /\ \A B \in SUBSET Places : IsFiniteSet(B) /\ Cardinality(B) \in 0..PerSet
<1>1. PerSet \in Nat \ {0}
  BY SetsAssumption
<1>2. IsFiniteSet(Places) /\ Cardinality(Places) = PerSet /\ 0 \in Places
  BY <1>1, FS_Interval DEF Places
<1>3. ASSUME NEW B \in SUBSET Places
      PROVE  IsFiniteSet(B) /\ Cardinality(B) \in 0..PerSet
  BY <1>1, <1>2, FS_Subset, FS_CardinalityType
<1> QED BY <1>2, <1>3
-----------------------------------------------------------------------------
(***************************************************************************)
(* The chain                                                               *)
(***************************************************************************)
\* Where the block begins that is the k-th to be made.
Begin(k) == PerSet * (k - 1)

\* The blocks are numbered as they are made, each begins where the one that was made
\* before it ends, and each is in the chain once, at whichever end it was put.
IsChain(c) ==
  /\ c \in Seq(Blocks) /\ Len(c) <= MaxBlocks[client]
  /\ \A p \in 1..Len(c) : c[p].id \in 1..Len(c) /\ c[p].bias = Begin(c[p].id)
  /\ \A p, q \in 1..Len(c) : c[p].id = c[q].id => p = q
  /\ \A k \in 1..Len(c) : \E p \in 1..Len(c) : c[p].id = k

LEMMA BeginsOf ==
  /\ Begin(1) = 0
  /\ \A k \in Nat \ {0} : Begin(k) \in Nat /\ Begin(k + 1) = Begin(k) + PerSet
  /\ \A j, k \in Nat \ {0} : j < k => Begin(j) + PerSet <= Begin(k)
<1>1. PerSet \in Nat
  BY SetsAssumption
<1>2. Begin(1) = 0
  BY <1>1 DEF Begin
<1>3. ASSUME NEW k \in Nat \ {0} PROVE Begin(k) \in Nat /\ Begin(k + 1) = Begin(k) + PerSet
  <2>1. PICK j \in Nat : k = j + 1
    <3>1. k - 1 \in Nat /\ k = (k - 1) + 1
      OBVIOUS
    <3> QED BY <3>1
  <2>2. PerSet * (j + 1) = PerSet * j + PerSet /\ PerSet * j \in Nat
    BY <1>1
  <2>3. (j + 1) - 1 = j /\ (j + 1 + 1) - 1 = j + 1
    OBVIOUS
  <2> QED BY <2>1, <2>2, <2>3 DEF Begin
<1>4. ASSUME NEW j \in Nat \ {0}, NEW k \in Nat \ {0}, j < k PROVE Begin(j) + PerSet <= Begin(k)
  <2>1. j - 1 \in Nat /\ k - 1 \in Nat /\ j - 1 < k - 1
    BY <1>4
  <2> QED BY <2>1, BlocksApart DEF Begin
<1> QED BY <1>2, <1>3, <1>4

LEMMA BlockParts ==
  ASSUME NEW b \in Blocks
  PROVE  b.bits \in SUBSET Places /\ b.bias \in Nat /\ b.nUsed \in Counts
BY DEF Blocks

LEMMA ChainParts ==
  ASSUME NEW c, IsChain(c)
  PROVE  /\ Len(c) \in Nat /\ DOMAIN c = 1..Len(c)
         /\ \A p \in 1..Len(c) : /\ c[p] \in Blocks /\ c[p].bits \in SUBSET Places
                               /\ c[p].nUsed \in Counts
                               /\ c[p].id \in 1..Len(c) /\ c[p].id \in Nat \ {0}
                               /\ c[p].bias \in Nat /\ c[p].bias = Begin(c[p].id)
         /\ \A p, q \in 1..Len(c) : c[p].id = c[q].id => p = q
         /\ \A k \in 1..Len(c) : \E p \in 1..Len(c) : c[p].id = k
<1>1. c \in Seq(Blocks)
  BY DEF IsChain
<1>2. Len(c) \in Nat /\ DOMAIN c = 1..Len(c) /\ \A p \in 1..Len(c) : c[p] \in Blocks
  BY <1>1
<1>3. \A p \in 1..Len(c) : c[p].id \in 1..Len(c) /\ c[p].bias = Begin(c[p].id)
  BY DEF IsChain
<1>4. \A k \in 1..Len(c) : \E p \in 1..Len(c) : c[p].id = k
  BY DEF IsChain
<1>5. \A p, q \in 1..Len(c) : c[p].id = c[q].id => p = q
  BY DEF IsChain
<1>6. \A p \in 1..Len(c) : c[p].id \in Nat \ {0}
  BY <1>2, <1>3
<1>7. \A p \in 1..Len(c) : c[p].bits \in SUBSET Places /\ c[p].bias \in Nat /\ c[p].nUsed \in Counts
  BY <1>2, BlockParts
<1> QED BY <1>2, <1>3, <1>4, <1>5, <1>6, <1>7

\* What a chain is does not depend on what is used.
LEMMA ChainOfSameBlocks ==
  ASSUME NEW c, IsChain(c), NEW d \in Seq(Blocks), Len(d) = Len(c),
         \A p \in 1..Len(c) : d[p].id = c[p].id /\ d[p].bias = c[p].bias
  PROVE  IsChain(d)
BY ZenonT(60) DEF IsChain

LEMMA NextBiasOfChain ==
  ASSUME NEW c, IsChain(c)
  PROVE  NextBias(c) = Begin(Len(c) + 1) /\ NextBias(c) \in Nat
<1>0. Len(c) \in Nat /\ DOMAIN c = 1..Len(c)
  BY ChainParts
<1>ids. \A p \in 1..Len(c) : c[p].id \in 1..Len(c) /\ c[p].id \in Nat \ {0}
  BY ChainParts
<1>bias. \A p \in 1..Len(c) : c[p].bias = Begin(c[p].id) /\ c[p].bias \in Nat
  BY ChainParts
<1>one. \A p, q \in 1..Len(c) : c[p].id = c[q].id => p = q
  BY ChainParts
<1>each. \A k \in 1..Len(c) : \E p \in 1..Len(c) : c[p].id = k
  BY ChainParts
<1>1. CASE c = <<>>
  BY <1>1, BeginsOf DEF NextBias
<1>2. CASE c # <<>>
  <2>1. Len(c) \in Nat \ {0} /\ DOMAIN c = 1..Len(c)
    BY <1>2, <1>0
  <2> DEFINE m == Begin(Len(c))
  <2>2. m \in Nat /\ Begin(Len(c) + 1) = m + PerSet /\ PerSet \in Nat
    BY <2>1, BeginsOf, SetsAssumption
  <2>3. m \in Biases(c)
    <3>1. PICK p \in 1..Len(c) : c[p].id = Len(c)
      BY <2>1, <1>each
    <3>2. c[p].bias = m
      BY <3>1, <1>bias
    <3> QED BY <2>1, <3>2 DEF Biases
  <2>4. ASSUME NEW x \in Biases(c) PROVE x <= m /\ x \in Nat
    <3>1. PICK p \in 1..Len(c) : x = c[p].bias
      BY <2>1 DEF Biases
    <3>2. c[p].id \in Nat \ {0} /\ c[p].id <= Len(c) /\ x = Begin(c[p].id)
      BY <2>1, <3>1, <1>ids, <1>bias
    <3>3. Begin(c[p].id) \in Nat /\ (c[p].id < Len(c) => Begin(c[p].id) + PerSet <= m)
      BY <2>1, <3>2, BeginsOf
    <3> QED BY <2>1, <2>2, <3>2, <3>3
  <2> HIDE DEF m
  <2>5. MaxBias(c) = m
    <3>1. ASSUME NEW y \in Biases(c), \A x \in Biases(c) : x <= y PROVE y = m
      BY <2>2, <2>3, <2>4, <3>1
    <3>2. \A x \in Biases(c) : x <= m
      BY <2>4
    <3>3. \A x \in Biases(c) : x <= MaxBias(c)
      BY <2>3, <3>2 DEF MaxBias
    <3>4. MaxBias(c) \in Biases(c)
      BY <2>3, <3>2 DEF MaxBias
    <3> QED BY <3>1, <3>3, <3>4
  <2> QED BY <1>2, <2>2, <2>5 DEF NextBias, m
<1> QED BY <1>1, <1>2

\* A block that is put at the head.
LEMMA ChainWithHead ==
  ASSUME NEW c, IsChain(c), Len(c) + 1 <= MaxBlocks[client], NEW b \in Blocks,
         b.id = Len(c) + 1, b.bias = Begin(Len(c) + 1)
  PROVE  /\ IsChain(<<b>> \o c) /\ Len(<<b>> \o c) = Len(c) + 1
         /\ (<<b>> \o c)[1] = b /\ \A p \in 1..Len(c) : (<<b>> \o c)[p + 1] = c[p]
<1> DEFINE d == <<b>> \o c
<1>0. Len(c) \in Nat /\ DOMAIN c = 1..Len(c)
  BY ChainParts
<1>ids. \A p \in 1..Len(c) : c[p].id \in 1..Len(c) /\ c[p].id \in Nat \ {0}
  BY ChainParts
<1>bias. \A p \in 1..Len(c) : c[p].bias = Begin(c[p].id) /\ c[p].bias \in Nat
  BY ChainParts
<1>one. \A p, q \in 1..Len(c) : c[p].id = c[q].id => p = q
  BY ChainParts
<1>each. \A k \in 1..Len(c) : \E p \in 1..Len(c) : c[p].id = k
  BY ChainParts
<1>c. c \in Seq(Blocks)
  BY DEF IsChain
<1>1. /\ d \in Seq(Blocks) /\ Len(d) = Len(c) + 1
      /\ d[1] = b /\ \A p \in 1..Len(c) : d[p + 1] = c[p]
  BY <1>0, <1>c
<1> HIDE DEF d
<1>2. ASSUME NEW p \in 1..Len(d), p # 1 PROVE p - 1 \in 1..Len(c) /\ d[p] = c[p - 1]
  <2>1. p - 1 \in 1..Len(c) /\ (p - 1) + 1 = p
    BY <1>0, <1>1, <1>2
  <2> QED BY <1>1, <2>1
<1>3. ASSUME NEW p \in 1..Len(d)
      PROVE  d[p].id \in 1..Len(d) /\ d[p].bias = Begin(d[p].id)
  <2>1. CASE p = 1
    BY <1>0, <1>1, <2>1
  <2>2. CASE p # 1
    <3>1. d[p].id \in 1..Len(c) /\ d[p].bias = Begin(d[p].id)
      BY <1>2, <2>2, <1>ids, <1>bias
    <3> QED BY <1>0, <1>1, <3>1
  <2> QED BY <2>1, <2>2
<1>4. ASSUME NEW p \in 1..Len(d), NEW q \in 1..Len(d), d[p].id = d[q].id
      PROVE  p = q
  <2>2. CASE p # 1 /\ q # 1
    <3>1. p - 1 = q - 1
      BY <1>2, <1>4, <2>2, <1>one
    <3> QED BY <3>1, <1>0, <1>1
  <2>3. CASE p = 1 /\ q # 1
    <3>1. d[q].id \in 1..Len(c) /\ d[p].id = Len(c) + 1
      BY <1>1, <1>2, <1>ids, <2>3
    <3> QED BY <1>0, <1>4, <3>1
  <2>4. CASE p # 1 /\ q = 1
    <3>1. d[p].id \in 1..Len(c) /\ d[q].id = Len(c) + 1
      BY <1>1, <1>2, <1>ids, <2>4
    <3> QED BY <1>0, <1>4, <3>1
  <2> QED BY <2>2, <2>3, <2>4
<1>5. ASSUME NEW k \in 1..Len(d) PROVE \E p \in 1..Len(d) : d[p].id = k
  <2>1. CASE k = Len(c) + 1
    BY <1>0, <1>1, <2>1
  <2>2. CASE k \in 1..Len(c)
    <3>1. PICK p \in 1..Len(c) : c[p].id = k
      BY <2>2, <1>each
    <3> QED BY <1>0, <1>1, <3>1
  <2> QED BY <1>0, <1>1, <2>1, <2>2
<1>6. IsChain(d)
  BY <1>1, <1>3, <1>4, <1>5 DEF IsChain
<1> QED BY <1>1, <1>6 DEF d

\* Each index below the end of the last block is covered by one block.
LEMMA CoveredOnce ==
  ASSUME NEW c, IsChain(c), NEW i \in Nat, i < PerSet * Len(c)
  PROVE  \E p \in 1..Len(c) : /\ Covering(c, i) = {p} /\ c[p].id = i \div PerSet + 1
                              /\ i - c[p].bias = i % PerSet
<1> DEFINE k == i \div PerSet
           r == i % PerSet
<1>0. Len(c) \in Nat /\ DOMAIN c = 1..Len(c)
  BY ChainParts
<1>ids. \A p \in 1..Len(c) : c[p].id \in 1..Len(c) /\ c[p].id \in Nat \ {0}
  BY ChainParts
<1>bias. \A p \in 1..Len(c) : c[p].bias = Begin(c[p].id) /\ c[p].bias \in Nat
  BY ChainParts
<1>one. \A p, q \in 1..Len(c) : c[p].id = c[q].id => p = q
  BY ChainParts
<1>each. \A m \in 1..Len(c) : \E p \in 1..Len(c) : c[p].id = m
  BY ChainParts
<1>1. /\ PerSet \in Nat \ {0} /\ k \in Nat /\ r \in 0..(PerSet - 1)
      /\ i = PerSet * k + r /\ Len(c) \in Nat
  BY SetsAssumption, DivisionOf, <1>0 DEF Places
<1> HIDE DEF k, r
<1>2. Begin(k + 1) = PerSet * k /\ Begin(k + 1) \in Nat
  <2>1. (k + 1) - 1 = k
    BY <1>1
  <2> QED BY <1>1, <2>1, BeginsOf DEF Begin
<1>3. k + 1 \in 1..Len(c)
  <2>1. CASE k = Len(c)
    BY <1>1, <1>2, <2>1
  <2>2. CASE Len(c) < k
    <3>1. PerSet * Len(c) + PerSet <= PerSet * k /\ PerSet * Len(c) \in Nat
      BY <1>1, <2>2, BlocksApart
    <3> QED BY <1>1, <1>2, <3>1
  <2> QED BY <1>1, <2>1, <2>2
<1>4. PICK p \in 1..Len(c) : c[p].id = k + 1
  BY <1>3, <1>each
<1>5. c[p].bias = Begin(k + 1)
  BY <1>4, <1>bias
<1>6. i = Begin(k + 1) + r
  BY <1>1, <1>2
<1>7. Covers(c[p], i)
  BY <1>1, <1>2, <1>5, <1>6 DEF Covers
<1>8. ASSUME NEW q \in 1..Len(c), Covers(c[q], i) PROVE q = p
  <2> DEFINE j == c[q].id
  <2>1. j \in Nat \ {0} /\ c[q].bias = Begin(j) /\ Begin(j) \in Nat
    BY <1>ids, <1>bias
  <2>2. Begin(j) <= i /\ i < Begin(j) + PerSet
    BY <1>8, <2>1 DEF Covers
  <2> HIDE DEF j
  <2>3. j = k + 1
    <3>1. CASE j < k + 1
      <4>1. Begin(j) + PerSet <= Begin(k + 1)
        BY <1>1, <2>1, <3>1, BeginsOf
      <4> QED BY <1>1, <1>2, <1>6, <2>1, <2>2, <4>1
    <3>2. CASE k + 1 < j
      <4>1. Begin(k + 1) + PerSet <= Begin(j)
        <5>1. k + 1 \in Nat \ {0}
          BY <1>1
        <5> QED BY <5>1, <2>1, <3>2, BeginsOf
      <4> QED BY <1>1, <1>2, <1>6, <2>1, <2>2, <4>1
    <3> QED BY <1>1, <2>1, <3>1, <3>2
  <2> QED BY <1>4, <2>3, <1>one DEF j
<1>9. Covering(c, i) = {p}
  BY <1>7, <1>8, <1>0 DEF Covering
<1>10. i - c[p].bias = r
  BY <1>1, <1>2, <1>5, <1>6
<1> QED BY <1>4, <1>9, <1>10 DEF k, r

\* The chain that is extended for an index covers it, with the blocks it had and empty ones.
LEMMA ReachingOfChain ==
  ASSUME client \in Clients, NEW c, IsChain(c), NEW i \in Indexes[client]
  PROVE  /\ IsChain(Reaching(c, i)) /\ i \in Nat /\ i < PerSet * Len(Reaching(c, i))
         /\ Len(c) <= Len(Reaching(c, i))
         /\ \A p \in 1..Len(c) : Reaching(c, i)[p] = c[p]
         /\ \A p \in 1..Len(Reaching(c, i)) :
              p > Len(c) => /\ Reaching(c, i)[p].id = p
                            /\ Reaching(c, i)[p].bits = {} /\ Reaching(c, i)[p].nUsed = 0
<1>0. Len(c) \in Nat /\ DOMAIN c = 1..Len(c)
  BY ChainParts
<1>ids. \A p \in 1..Len(c) : c[p].id \in 1..Len(c) /\ c[p].id \in Nat \ {0}
  BY ChainParts
<1>bias. \A p \in 1..Len(c) : c[p].bias = Begin(c[p].id) /\ c[p].bias \in Nat
  BY ChainParts
<1>1. /\ PerSet \in Nat \ {0} /\ i \in Nat /\ MaxBlocks[client] \in Nat
      /\ i < PerSet * MaxBlocks[client]
  BY SetsAssumption
<1>2. Begin(Len(c) + 1) = PerSet * Len(c) /\ Begin(Len(c) + 1) \in Nat
  <2>1. (Len(c) + 1) - 1 = Len(c) /\ Len(c) + 1 \in Nat \ {0}
    BY <1>0
  <2> QED BY <2>1, BeginsOf DEF Begin
<1>3. CASE Covering(c, i) # {}
  <2>1. PICK p \in 1..Len(c) : Covers(c[p], i)
    BY <1>0, <1>3 DEF Covering
  <2> DEFINE k == c[p].id
  <2>2. k \in Nat \ {0} /\ k <= Len(c) /\ i < Begin(k) + PerSet
    BY <1>0, <1>ids, <1>bias, <2>1 DEF Covers
  <2> HIDE DEF k
  <2>3. Begin(k) \in Nat /\ Begin(k) + PerSet <= Begin(Len(c) + 1)
    <3>1. k < Len(c) + 1 /\ Len(c) + 1 \in Nat \ {0}
      BY <1>0, <2>2
    <3> QED BY <2>2, <3>1, BeginsOf
  <2>4. i < PerSet * Len(c)
    BY <1>1, <1>2, <2>2, <2>3
  <2>5. Reaching(c, i) = c
    BY <1>3 DEF Reaching
  <2> QED BY <1>0, <1>1, <2>4, <2>5
<1>4. CASE Covering(c, i) = {}
  <2> DEFINE x == i - NextBias(c)
             m == x \div PerSet + 1
             B(k) == Block(Len(c) + k, NextBias(c) + (k - 1) * PerSet, {})
             e == [k \in 1..m |-> B(k)]
  <2>1. Reaching(c, i) = c \o e
    BY <1>4 DEF Reaching
  <2>2. NextBias(c) = PerSet * Len(c) /\ NextBias(c) \in Nat
    BY <1>2, NextBiasOfChain
  <2>3. x \in Nat
    <3>1. ASSUME i < PerSet * Len(c) PROVE FALSE
      <4>1. PICK p \in 1..Len(c) : Covering(c, i) = {p}
        BY <1>1, <3>1, CoveredOnce
      <4> QED BY <1>4, <4>1
    <3> QED BY <1>1, <2>2, <3>1
  <2>4. m \in Nat /\ m - 1 \in Nat /\ x % PerSet \in 0..(PerSet - 1) /\ x = PerSet * (m - 1) + (x % PerSet)
    <3>1. x \div PerSet \in Nat /\ m \in Nat /\ (x \div PerSet + 1) - 1 = x \div PerSet
      <4> HIDE DEF x
      <4> QED BY <2>3, DivisionOf
    <3>2. m - 1 = x \div PerSet
      BY <3>1
    <3> HIDE DEF x, m
    <3>3. x % PerSet \in Places /\ x = PerSet * (x \div PerSet) + (x % PerSet)
      BY <2>3, DivisionOf
    <3> QED BY <3>1, <3>2, <3>3 DEF Places
  <2> HIDE DEF m
  <2>5. /\ i = PerSet * (Len(c) + (m - 1)) + (x % PerSet)
        /\ PerSet * (Len(c) + m) = PerSet * (Len(c) + (m - 1)) + PerSet
        /\ PerSet * (Len(c) + (m - 1)) \in Nat
    <3>1. PICK j \in Nat : j = m - 1 /\ m = j + 1 /\ m \in Nat
      BY <2>4
    <3>2. /\ PerSet * (Len(c) + j) = PerSet * Len(c) + PerSet * j
          /\ PerSet * (Len(c) + (j + 1)) = PerSet * (Len(c) + j) + PerSet
          /\ PerSet * (Len(c) + j) \in Nat
      BY <1>0, <1>1
    <3>3. i = NextBias(c) + x
      BY <1>1, <2>2
    <3> HIDE DEF x
    <3>4. x = PerSet * j + (x % PerSet) /\ x % PerSet \in Nat
      BY <1>1, <2>4, <3>1
    <3>5. i = PerSet * (Len(c) + j) + (x % PerSet)
      <4> DEFINE a == PerSet * j
                 b == PerSet * Len(c)
                 r == x % PerSet
                 y == PerSet * (Len(c) + j)
      <4>1. /\ a \in Nat /\ b \in Nat /\ r \in Nat /\ y = b + a
            /\ x = a + r /\ i = b + x
        BY <1>0, <1>1, <2>2, <3>1, <3>2, <3>3, <3>4
      <4> HIDE DEF a, b, r, y
      <4>2. i = y + r
        BY <4>1
      <4> QED BY <4>2 DEF y, r
    <3>6. Len(c) + (m - 1) = Len(c) + j /\ Len(c) + m = Len(c) + (j + 1)
      BY <3>1
    <3> QED BY <3>2, <3>5, <3>6
  <2> HIDE DEF x
  <2>6. i < PerSet * (Len(c) + m)
    BY <1>1, <2>4, <2>5
  <2>7. Len(c) + m <= MaxBlocks[client] /\ m \in Nat
    <3>1. m \in Nat /\ Len(c) + (m - 1) \in Nat
      BY <1>0, <2>4
    <3>2. CASE MaxBlocks[client] = Len(c) + (m - 1)
      BY <1>1, <2>4, <2>5, <3>2
    <3>3. CASE MaxBlocks[client] < Len(c) + (m - 1)
      <4>1. /\ PerSet * MaxBlocks[client] + PerSet <= PerSet * (Len(c) + (m - 1))
            /\ PerSet * MaxBlocks[client] \in Nat
        BY <1>1, <3>1, <3>3, BlocksApart
      <4> DEFINE y == PerSet * (Len(c) + (m - 1))
                 z == PerSet * MaxBlocks[client]
      <4>2. /\ y \in Nat /\ z \in Nat /\ z + PerSet <= y /\ i < z /\ i = y + (x % PerSet)
            /\ x % PerSet \in Nat /\ PerSet \in Nat
        BY <1>1, <2>4, <2>5, <4>1
      <4> HIDE DEF y, z
      <4> QED BY <1>1, <4>2
    <3> QED BY <1>0, <1>1, <3>1, <3>2, <3>3
  <2>8. ASSUME NEW k \in 1..m
        PROVE  /\ B(k) \in Blocks /\ B(k).id = Len(c) + k /\ B(k).bias = Begin(Len(c) + k)
               /\ B(k).bits = {} /\ B(k).nUsed = 0
    <3>1. /\ NextBias(c) + (k - 1) * PerSet = Begin(Len(c) + k)
          /\ Begin(Len(c) + k) \in Nat
      <4>1. PICK j \in Nat : k = j + 1 /\ j = k - 1
        BY <2>7
      <4>2. (Len(c) + (j + 1)) - 1 = Len(c) + j /\ Len(c) + (j + 1) \in Nat \ {0}
        BY <1>0
      <4>3. PerSet * (Len(c) + j) = PerSet * Len(c) + j * PerSet
        BY <1>0, <1>1
      <4>4. Begin(Len(c) + (j + 1)) = PerSet * (Len(c) + j)
        BY <4>2 DEF Begin
      <4> QED BY <2>2, <4>1, <4>2, <4>3, <4>4, BeginsOf
    <3>2. Cardinality({}) = 0 /\ 0 \in Counts
      BY FS_EmptySet, CountsFit, <1>1
    <3>3. Len(c) + k \in 1..MaxBlocks[client]
      BY <1>0, <1>1, <2>7
    <3> QED BY <3>1, <3>2, <3>3 DEF Block, Blocks
  <2> HIDE DEF B
  <2>9. /\ c \o e \in Seq(Blocks) /\ Len(c \o e) = Len(c) + m
        /\ \A p \in 1..Len(c) : (c \o e)[p] = c[p]
        /\ \A k \in 1..m : (c \o e)[Len(c) + k] = B(k)
    <3>1. c \in Seq(Blocks)
      BY DEF IsChain
    <3>2. e \in Seq(Blocks) /\ Len(e) = m /\ \A k \in 1..m : e[k] = B(k)
      BY <2>7, <2>8
    <3> HIDE DEF e
    <3> QED BY <2>7, <3>1, <3>2
  <2> DEFINE d == c \o e
  <2> HIDE DEF e, d
  <2>10. /\ d \in Seq(Blocks) /\ Len(d) = Len(c) + m
         /\ \A p \in 1..Len(c) : d[p] = c[p]
    BY <2>9 DEF d
  <2>11. ASSUME NEW p \in 1..Len(d), p > Len(c)
         PROVE  d[p].id = p /\ d[p].bias = Begin(p) /\ d[p].bits = {} /\ d[p].nUsed = 0
    <3>1. p - Len(c) \in 1..m /\ Len(c) + (p - Len(c)) = p
      BY <1>0, <2>7, <2>10, <2>11
    <3>2. d[Len(c) + (p - Len(c))] = B(p - Len(c))
      BY <2>9, <3>1 DEF d
    <3> QED BY <2>8, <3>1, <3>2
  <2>12. ASSUME NEW p \in 1..Len(d)
         PROVE  d[p].id \in 1..Len(d) /\ d[p].bias = Begin(d[p].id)
    <3>1. CASE p > Len(c)
      BY <2>11, <3>1
    <3>2. CASE p \in 1..Len(c)
      BY <1>0, <1>ids, <1>bias, <2>7, <2>10, <3>2
    <3> QED BY <1>0, <3>1, <3>2
  <2>13. ASSUME NEW p \in 1..Len(d), NEW q \in 1..Len(d), d[p].id = d[q].id
         PROVE  p = q
    <3>0. \A z \in 1..Len(d) : z > Len(c) \/ (z \in 1..Len(c) /\ d[z].id \in 1..Len(c))
      BY <1>0, <1>ids, <2>10
    <3>1. CASE p > Len(c) /\ q > Len(c)
      BY <2>11, <2>13, <3>1
    <3>2. CASE p > Len(c) /\ q \in 1..Len(c) /\ d[q].id \in 1..Len(c)
      BY <1>0, <2>11, <2>13, <3>2
    <3>3. CASE q > Len(c) /\ p \in 1..Len(c) /\ d[p].id \in 1..Len(c)
      BY <1>0, <2>11, <2>13, <3>3
    <3>4. CASE p \in 1..Len(c) /\ q \in 1..Len(c)
      <4>1. \A y, z \in 1..Len(c) : c[y].id = c[z].id => y = z
        BY ChainParts
      <4> QED BY <2>10, <2>13, <3>4, <4>1
    <3> QED BY <3>0, <3>1, <3>2, <3>3, <3>4
  <2>14. ASSUME NEW k \in 1..Len(d) PROVE \E p \in 1..Len(d) : d[p].id = k
    <3>1. CASE k > Len(c)
      BY <2>11, <3>1
    <3>2. CASE k \in 1..Len(c)
      <4>1. PICK p \in 1..Len(c) : c[p].id = k
        BY <3>2, ChainParts
      <4> QED BY <1>0, <2>7, <2>10, <4>1
    <3> QED BY <1>0, <3>1, <3>2
  <2>15. IsChain(d)
    BY <2>7, <2>10, <2>12, <2>13, <2>14 DEF IsChain
  <2>16. i < PerSet * Len(d)
    BY <2>6, <2>10
  <2>17. Len(c) <= Len(d)
    BY <1>0, <2>7, <2>10
  <2>18. Reaching(c, i) = d
    BY <2>1 DEF d
  <2> HIDE DEF d
  <2> QED BY <1>1, <2>10, <2>11, <2>15, <2>16, <2>17, <2>18
<1> QED BY <1>3, <1>4
-----------------------------------------------------------------------------
(***************************************************************************)
(* The bits and the counts                                                 *)
(***************************************************************************)
\* What UsedIsHeld says of a chain and of what is held.
InStep(c, h) ==
  \A p \in 1..Len(c) : /\ c[p].bits = {n \in Places : <<c[p].id, n>> \in h}
                       /\ c[p].nUsed = Cardinality(c[p].bits)

LEMMA SetUsedOf ==
  ASSUME NEW b \in Blocks, NEW n \in Nat
  PROVE  /\ SetUsed(b, n) \in Blocks /\ SetUsed(b, n).id = b.id /\ SetUsed(b, n).bias = b.bias
         /\ n \in Places => SetUsed(b, n).bits = b.bits \cup {n}
         /\ n \in Places \ b.bits /\ b.nUsed = Cardinality(b.bits) =>
              SetUsed(b, n).nUsed = Cardinality(b.bits \cup {n})
<1> DEFINE d == SetUsed(b, n)
           x == (b.nUsed + 1) % CountMod
<1>1. b.bits \in SUBSET Places /\ b.nUsed \in Nat
  BY SetsAssumption, BlockParts DEF Counts
<1>2. x \in Counts
  BY <1>1, CountsAreCut
<1>3. /\ d.id = b.id /\ d.bias = b.bias /\ d.bits = b.bits \cup ({n} \cap Places) /\ d.nUsed = x
      /\ d \in Blocks
  <2> HIDE DEF x
  <2>1. b.bits \cup ({n} \cap Places) \in SUBSET Places
    BY <1>1
  <2>2. d = [b EXCEPT !.bits = b.bits \cup ({n} \cap Places), !.nUsed = x]
    BY DEF SetUsed, Blocks, x
  <2> HIDE DEF d
  <2> QED BY <1>2, <2>1, <2>2 DEF Blocks
<1>4. ASSUME n \in Places \ b.bits, b.nUsed = Cardinality(b.bits)
      PROVE  x = Cardinality(b.bits \cup {n})
  <2>1. IsFiniteSet(b.bits) /\ b.bits \cup {n} \in SUBSET Places
    BY <1>1, <1>4, PlacesCounted
  <2>2. Cardinality(b.bits \cup {n}) = b.nUsed + 1
    BY <1>4, <2>1, FS_AddElement
  <2>3. b.nUsed + 1 \in 0..PerSet
    BY <2>1, <2>2, PlacesCounted
  <2> QED BY <2>2, <2>3, CountsFit
<1> HIDE DEF d, x
<1>5. n \in Places => d.bits = b.bits \cup {n}
  BY <1>3
<1> QED BY <1>3, <1>4, <1>5 DEF d

LEMMA ClearUsedOf ==
  ASSUME NEW b \in Blocks, NEW n \in Places
  PROVE  /\ ClearUsed(b, n) \in Blocks /\ ClearUsed(b, n).id = b.id
         /\ ClearUsed(b, n).bias = b.bias /\ ClearUsed(b, n).bits = b.bits \ {n}
         /\ n \in b.bits /\ b.nUsed = Cardinality(b.bits) =>
              ClearUsed(b, n).nUsed = Cardinality(b.bits \ {n})
<1> DEFINE d == ClearUsed(b, n)
           x == (b.nUsed - 1) % CountMod
<1>1. b.bits \in SUBSET Places /\ b.nUsed \in Nat
  BY SetsAssumption, BlockParts DEF Counts
<1>2. x \in Counts
  BY <1>1, CountsAreCut
<1>3. /\ d.id = b.id /\ d.bias = b.bias /\ d.bits = b.bits \ {n} /\ d.nUsed = x
      /\ d \in Blocks
  <2> HIDE DEF x
  <2>1. b.bits \ {n} \in SUBSET Places
    BY <1>1
  <2>2. d = [b EXCEPT !.bits = b.bits \ {n}, !.nUsed = x]
    BY DEF ClearUsed, Blocks, x
  <2> HIDE DEF d
  <2> QED BY <1>2, <2>1, <2>2 DEF Blocks
<1>4. ASSUME n \in b.bits, b.nUsed = Cardinality(b.bits)
      PROVE  x = Cardinality(b.bits \ {n})
  <2>1. IsFiniteSet(b.bits) /\ b.bits \ {n} \in SUBSET Places
    BY <1>1, PlacesCounted
  <2>2. Cardinality(b.bits \ {n}) = b.nUsed - 1
    BY <1>4, <2>1, FS_RemoveElement, ZenonT(60)
  <2>3. b.nUsed - 1 \in 0..PerSet
    BY <2>1, <2>2, PlacesCounted
  <2> QED BY <2>2, <2>3, CountsFit
<1> HIDE DEF d, x
<1> QED BY <1>3, <1>4 DEF d

\* A unit of one block is used, or is used no more, and it is held, or held no more.
LEMMA InStepWith ==
  ASSUME NEW c, IsChain(c), NEW h, InStep(c, h), NEW p \in 1..Len(c), NEW n \in Places,
         n \notin c[p].bits, NEW d, Len(d) = Len(c), d[p] = SetUsed(c[p], n),
         \A q \in 1..Len(c) : q # p => d[q] = c[q]
  PROVE  InStep(d, h \cup {<<c[p].id, n>>})
<1> DEFINE g == h \cup {<<c[p].id, n>>}
<1>1. /\ c[p] \in Blocks /\ n \in Nat /\ c[p].bits \in SUBSET Places
      /\ c[p].bits = {m \in Places : <<c[p].id, m>> \in h}
      /\ c[p].nUsed = Cardinality(c[p].bits)
  BY SetsAssumption, ChainParts DEF InStep, Places
<1>2. /\ d[p].id = c[p].id /\ d[p].bits = c[p].bits \cup {n}
      /\ d[p].nUsed = Cardinality(c[p].bits \cup {n})
  <2> DEFINE b == c[p]
  <2>1. b \in Blocks /\ n \in Nat /\ n \in Places /\ b.nUsed = Cardinality(b.bits) /\ d[p] = SetUsed(b, n)
        /\ n \notin b.bits
    BY <1>1
  <2> HIDE DEF b
  <2>2. /\ d[p].id = b.id /\ d[p].bits = b.bits \cup {n}
        /\ d[p].nUsed = Cardinality(b.bits \cup {n})
    <3>1. n \in Places \ b.bits
      BY <2>1
    <3>2. SetUsed(b, n).bits = b.bits \cup {n} /\ SetUsed(b, n).id = b.id
      BY <2>1, SetUsedOf
    <3>3. SetUsed(b, n).nUsed = Cardinality(b.bits \cup {n})
      BY <2>1, <3>1, SetUsedOf
    <3> QED BY <2>1, <3>2, <3>3
  <2> QED BY <2>2 DEF b
<1>3. d[p].bits = {m \in Places : <<d[p].id, m>> \in g}
  BY <1>1, <1>2
<1>4. ASSUME NEW q \in 1..Len(c), q # p
      PROVE  d[q].bits = {m \in Places : <<d[q].id, m>> \in g} /\ d[q].nUsed = Cardinality(d[q].bits)
  <2>1. c[q].id # c[p].id
    BY <1>4, ChainParts
  <2>2. \A m \in Places : <<c[q].id, m>> \in g <=> <<c[q].id, m>> \in h
    BY <2>1
  <2>3. c[q].bits = {m \in Places : <<c[q].id, m>> \in h} /\ c[q].nUsed = Cardinality(c[q].bits)
    BY DEF InStep
  <2> QED BY <1>4, <2>2, <2>3
<1> QED BY <1>2, <1>3, <1>4 DEF InStep

LEMMA InStepWithout ==
  ASSUME NEW c, IsChain(c), NEW h, InStep(c, h), NEW p \in 1..Len(c), NEW n \in Places,
         n \in c[p].bits, NEW d, Len(d) = Len(c), d[p] = ClearUsed(c[p], n),
         \A q \in 1..Len(c) : q # p => d[q] = c[q]
  PROVE  InStep(d, h \ {<<c[p].id, n>>})
<1> DEFINE g == h \ {<<c[p].id, n>>}
<1>1. /\ c[p] \in Blocks /\ n \in Nat /\ c[p].bits \in SUBSET Places
      /\ c[p].bits = {m \in Places : <<c[p].id, m>> \in h}
      /\ c[p].nUsed = Cardinality(c[p].bits)
  BY SetsAssumption, ChainParts, SMTT(30) DEF InStep, Places
<1>2. /\ d[p].id = c[p].id /\ d[p].bits = c[p].bits \ {n}
      /\ d[p].nUsed = Cardinality(c[p].bits \ {n})
  <2> DEFINE b == c[p]
  <2>1. b \in Blocks /\ n \in Nat /\ n \in Places /\ b.nUsed = Cardinality(b.bits) /\ d[p] = ClearUsed(b, n)
        /\ n \in b.bits
    BY <1>1
  <2> HIDE DEF b
  <2>2. /\ d[p].id = b.id /\ d[p].bits = b.bits \ {n}
        /\ d[p].nUsed = Cardinality(b.bits \ {n})
    BY <2>1, ClearUsedOf
  <2> QED BY <2>2 DEF b
<1>3. d[p].bits = {m \in Places : <<d[p].id, m>> \in g}
  BY <1>1, <1>2
<1>4. ASSUME NEW q \in 1..Len(c), q # p
      PROVE  d[q].bits = {m \in Places : <<d[q].id, m>> \in g} /\ d[q].nUsed = Cardinality(d[q].bits)
  <2>1. c[q].id # c[p].id
    BY <1>4, ChainParts
  <2>2. \A m \in Places : <<c[q].id, m>> \in g <=> <<c[q].id, m>> \in h
    BY <2>1
  <2>3. c[q].bits = {m \in Places : <<c[q].id, m>> \in h} /\ c[q].nUsed = Cardinality(c[q].bits)
    BY DEF InStep
  <2> QED BY <1>4, <2>2, <2>3
<1> QED BY <1>2, <1>3, <1>4 DEF InStep

\* Correcting a count changes nothing where the counts are right.
LEMMA CorrectedOf ==
  ASSUME NEW c, IsChain(c), NEW last \in Nat
  PROVE  /\ IsChain(Corrected(c, last)) /\ Len(Corrected(c, last)) = Len(c)
         /\ \A p \in 1..Len(c) : p > last => Corrected(c, last)[p] = c[p]
         /\ \A h : InStep(c, h) => Corrected(c, last) = c
<1> DEFINE d == Corrected(c, last)
<1>1. Len(c) \in Nat /\ DOMAIN c = 1..Len(c) /\ \A p \in 1..Len(c) : c[p] \in Blocks
  BY ChainParts
<1>2. d = [p \in 1..Len(c) |->
             IF p <= last /\ ~HasFree(c[p]) THEN [c[p] EXCEPT !.nUsed = PerSet] ELSE c[p]]
  BY <1>1 DEF Corrected
<1> HIDE DEF d
<1>3. PerSet \in Counts
  BY SetsAssumption, CountsFit
<1>4. ASSUME NEW p \in 1..Len(c)
      PROVE  d[p] \in Blocks /\ d[p].id = c[p].id /\ d[p].bias = c[p].bias
  <2>1. c[p] \in Blocks
    BY <1>1
  <2>2. d[p] = c[p] \/ d[p] = [c[p] EXCEPT !.nUsed = PerSet]
    BY <1>2
  <2> QED BY <1>3, <2>1, <2>2 DEF Blocks
<1>5. d \in Seq(Blocks) /\ Len(d) = Len(c)
  BY <1>1, <1>2, <1>4
<1>6. IsChain(d)
  BY <1>4, <1>5, ChainOfSameBlocks
<1>7. \A p \in 1..Len(c) : p > last => d[p] = c[p]
  BY <1>2
<1>8. ASSUME NEW h, InStep(c, h) PROVE d = c
  <2>1. ASSUME NEW p \in 1..Len(c), ~HasFree(c[p]) PROVE [c[p] EXCEPT !.nUsed = PerSet] = c[p]
    <3>1. c[p].bits = Places /\ c[p].nUsed = Cardinality(c[p].bits)
      BY <1>8, <2>1 DEF HasFree, InStep
    <3>2. c[p].nUsed = PerSet
      BY <3>1, PlacesCounted
    <3> QED BY <1>1, <3>2 DEF Blocks
  <2>2. \A p \in 1..Len(c) : d[p] = c[p]
    BY <1>2, <2>1
  <2>3. c \in Seq(Blocks)
    BY DEF IsChain
  <2> QED BY <1>1, <1>2, <2>2, <2>3
<1> QED BY <1>5, <1>6, <1>7, <1>8 DEF d
-----------------------------------------------------------------------------
(***************************************************************************)
(* The invariant                                                           *)
(***************************************************************************)
\* What is held is in a block of the chain, a walk is at one, and a callback is called at
\* a unit.
Inv ==
  /\ client \in Clients
  /\ IsChain(chain)
  /\ held \subseteq (1..Len(chain)) \X Places
  /\ walk \in Walks /\ walk.block \in 0..Len(chain) /\ walk.due \subseteq held
  /\ ~Walking => walk = NoWalk
  /\ walk.calling => walk.n \in Places /\ walk.block # NoBlock
  /\ WellUsed => InStep(chain, held)

LEMMA InvInit == Init => Inv
<1> SUFFICES ASSUME Init PROVE Inv
  OBVIOUS
<1>1. MaxBlocks[client] \in Nat /\ PerSet \in Nat
  BY SetsAssumption DEF Init
<1>2. Len(chain) = 0 /\ chain \in Seq(Blocks)
  BY DEF Init
<1>3. IsChain(chain)
  BY <1>1, <1>2 DEF IsChain
<1>4. NoWalk \in Walks
  BY <1>1 DEF NoWalk, Walks, NoBlock
<1> QED BY <1>2, <1>3, <1>4 DEF Init, Inv, Walking, NoWalk, NoBlock, InStep

\* The position of a block that is in the chain.
LEMMA PositionOf ==
  ASSUME Inv, NEW id \in 1..Len(chain)
  PROVE  Position(id) \in 1..Len(chain) /\ chain[Position(id)].id = id
<1>1. IsChain(chain)
  BY DEF Inv
<1>2. DOMAIN chain = 1..Len(chain)
  BY <1>1, ChainParts
<1>3. \E p \in 1..Len(chain) : chain[p].id = id
  BY <1>1, ChainParts
<1> QED BY <1>2, <1>3 DEF Position

\* A step that takes or puts in blocks, and leaves the walk.
LEMMA InvMore ==
  ASSUME Inv, UNCHANGED <<client, walk>>, IsChain(chain'), Len(chain) <= Len(chain'),
         held \subseteq held', held' \subseteq (1..Len(chain')) \X Places,
         WellUsed' => InStep(chain', held')
  PROVE  Inv'
<1>1. IsChain(chain)'
  BY DEF IsChain, Blocks
<1>2. Len(chain) \in Nat /\ Len(chain') \in Nat
  BY ChainParts DEF Inv
<1>3. walk' \in Walks'
  BY DEF Inv, Walks, Units
<1>4. InStep(chain', held') => InStep(chain, held)'
  BY DEF InStep
<1>5. walk'.block \in 0..Len(chain')
  BY <1>2 DEF Inv
<1> QED BY <1>1, <1>3, <1>4, <1>5 DEF Inv, Walking

\* A step that takes back a unit.
LEMMA InvLess ==
  ASSUME Inv, NEW u \in held, Forget(u), UNCHANGED client, IsChain(chain'),
         Len(chain) = Len(chain'), WellUsed' => InStep(chain', held')
  PROVE  Inv'
<1>1. IsChain(chain)'
  BY DEF IsChain, Blocks
<1>2. held' \subseteq (1..Len(chain')) \X Places
  BY DEF Inv, Forget
<1>3. InStep(chain', held') => InStep(chain, held)'
  BY DEF InStep
<1>4. CASE ~Walking
  <2>1. walk' = NoWalk /\ walk = NoWalk
    BY <1>4 DEF Inv, Forget
  <2>2. walk' \in Walks' /\ walk'.due = {}
    BY <2>1 DEF Inv, Walks, Units, NoWalk
  <2> QED BY <1>1, <1>2, <1>3, <2>1, <2>2 DEF Inv, Walking
<1>5. CASE Walking
  <2>1. walk' = [walk EXCEPT !.due = @ \ {u}, !.deleted = (walk.kind = "each")]
    BY <1>5 DEF Forget
  <2>2. /\ walk' \in Walks' /\ walk'.due = walk.due \ {u} /\ walk'.kind = walk.kind
        /\ walk'.block = walk.block /\ walk'.n = walk.n /\ walk'.calling = walk.calling
    <3>1. (walk.kind = "each") \in BOOLEAN
      OBVIOUS
    <3> QED BY <2>1, <3>1 DEF Inv, Walks, Units
  <2>3. walk'.due \subseteq held'
    BY <2>2 DEF Inv, Forget
  <2> QED BY <1>1, <1>2, <1>3, <1>5, <2>2, <2>3 DEF Inv, Walking
<1> QED BY <1>4, <1>5

LEMMA WellUsedBefore ==
  ASSUME Inv, UNCHANGED client, Len(chain') \in Nat, Len(chain) <= Len(chain'), WellUsed'
  PROVE  WellUsed
<1>1. Len(chain) \in Nat
  BY ChainParts DEF Inv
<1> QED BY <1>1 DEF WellUsed

LEMMA GetKeepsInv == Inv /\ GetFromSet => Inv'
<1> SUFFICES ASSUME Inv, GetFromSet PROVE Inv'
  OBVIOUS
<1>0. /\ IsChain(chain) /\ Len(chain) \in Nat /\ DOMAIN chain = 1..Len(chain)
      /\ UNCHANGED <<client, walk>> /\ held \subseteq (1..Len(chain)) \X Places
  BY ChainParts DEF Inv, GetFromSet
<1>1. CASE Open(chain) # {}
  <2> DEFINE p == Least(Open(chain))
             n == Least(Places \ chain[p].bits)
             k == Corrected(chain, p - 1)
  <2>1. p \in 1..Len(chain) /\ HasFree(chain[p])
    <3>1. Open(chain) \in SUBSET Nat
      BY <1>0 DEF Open
    <3>2. p \in Open(chain)
      BY <1>1, <3>1, LeastOf
    <3> QED BY <1>0, <3>2 DEF Open
  <2> HIDE DEF p
  <2>2. n \in Places /\ n \notin chain[p].bits /\ n \in Nat
    <3>1. chain[p].bits \in SUBSET Places
      BY <1>0, <2>1, ChainParts
    <3>2. Places \ chain[p].bits # {} /\ Places \ chain[p].bits \in SUBSET Nat
      <4>1. Places \in SUBSET Nat
        BY SetsAssumption DEF Places
      <4>2. chain[p].bits # Places
        BY <2>1 DEF HasFree
      <4> QED BY <3>1, <4>1, <4>2
    <3>3. n \in Places \ chain[p].bits
      BY <3>2, LeastOf
    <3> QED BY <3>2, <3>3
  <2> HIDE DEF n
  <2>3. p - 1 \in Nat /\ p > p - 1
    BY <1>0, <2>1
  <2>4. IsChain(k) /\ Len(k) = Len(chain) /\ k[p] = chain[p]
    BY <1>0, <2>1, <2>3, CorrectedOf
  <2>5. \A h : InStep(chain, h) => k = chain
    BY <1>0, <2>3, CorrectedOf
  <2> DEFINE d == [k EXCEPT ![p] = SetUsed(@, n)]
  <2>6. chain' = d /\ held' = held \cup {<<chain[p].id, n>>}
    BY <1>1 DEF GetFromSet, TakenAt, p, n
  <2> HIDE DEF k
  <2>7. DOMAIN k = 1..Len(chain) /\ k \in Seq(Blocks) /\ \A q \in 1..Len(chain) : k[q] \in Blocks
    BY <2>4, ChainParts DEF IsChain
  <2>8. d[p] = SetUsed(k[p], n) /\ \A q \in 1..Len(chain) : q # p => d[q] = k[q]
    BY <2>1, <2>7
  <2>9. SetUsed(k[p], n) \in Blocks /\ SetUsed(k[p], n).id = k[p].id /\ SetUsed(k[p], n).bias = k[p].bias
    BY <2>1, <2>2, <2>7, SetUsedOf
  <2>10. d \in Seq(Blocks) /\ Len(d) = Len(chain)
    <3>1. DOMAIN d = 1..Len(chain) /\ d = [q \in 1..Len(chain) |-> d[q]]
      BY <2>7
    <3>2. \A q \in 1..Len(chain) : d[q] \in Blocks
      BY <2>7, <2>8, <2>9
    <3> HIDE DEF d
    <3> QED BY <1>0, <3>1, <3>2
  <2> HIDE DEF d
  <2>11. IsChain(d)
    BY <2>4, <2>8, <2>9, <2>10, ChainOfSameBlocks
  <2>12. chain[p].id \in 1..Len(chain)
    BY <1>0, <2>1, ChainParts
  <2>13. ASSUME WellUsed' PROVE InStep(d, held')
    <3>1. InStep(chain, held)
      BY <1>0, <2>6, <2>10, <2>13, WellUsedBefore DEF Inv
    <3>2. k = chain
      BY <2>5, <3>1
    <3> QED BY <1>0, <2>1, <2>2, <2>6, <2>8, <2>10, <3>1, <3>2, InStepWith
  <2> QED BY <1>0, <2>2, <2>6, <2>10, <2>11, <2>12, <2>13, InvMore
<1>2. CASE Open(chain) = {}
  <2> DEFINE k == Corrected(chain, Len(chain))
             b == Block(Len(chain) + 1, NextBias(chain), {0})
  <2>1. /\ Len(chain) < MaxBlocks[client]
        /\ chain' = <<b>> \o k /\ held' = held \cup {<<Len(chain) + 1, 0>>}
    BY <1>2 DEF GetFromSet, TakenAnew
  <2>2. IsChain(k) /\ Len(k) = Len(chain) /\ \A h : InStep(chain, h) => k = chain
    BY <1>0, CorrectedOf
  <2>3. NextBias(chain) = Begin(Len(chain) + 1) /\ NextBias(chain) \in Nat
    BY <1>0, NextBiasOfChain
  <2>4. /\ {0} \in SUBSET Places /\ Cardinality({0}) \in Counts /\ 0 \in Places
        /\ MaxBlocks[client] \in Nat
    BY PlacesCounted, CountsFit, SetsAssumption DEF Inv
  <2>5. /\ b \in Blocks /\ b.id = Len(chain) + 1 /\ b.bias = Begin(Len(chain) + 1)
        /\ b.bits = {0} /\ b.nUsed = Cardinality({0})
    BY <1>0, <2>1, <2>3, <2>4 DEF Block, Blocks
  <2> HIDE DEF k, b
  <2>6. Len(k) + 1 <= MaxBlocks[client]
    BY <1>0, <2>1, <2>2, <2>4
  <2>7. /\ IsChain(chain') /\ Len(chain') = Len(chain) + 1
        /\ chain'[1] = b /\ \A p \in 1..Len(chain) : chain'[p + 1] = k[p]
    BY <2>1, <2>2, <2>5, <2>6, ChainWithHead
  <2>8. held' \subseteq (1..Len(chain')) \X Places
    BY <1>0, <2>1, <2>4, <2>7
  <2>9. ASSUME WellUsed' PROVE InStep(chain', held')
    <3>1. InStep(chain, held)
      BY <1>0, <2>7, <2>9, WellUsedBefore DEF Inv
    <3>2. k = chain
      BY <2>2, <3>1
    <3>3. ASSUME NEW p \in 1..Len(chain'), p # 1
          PROVE  /\ chain'[p].bits = {n \in Places : <<chain'[p].id, n>> \in held'}
                 /\ chain'[p].nUsed = Cardinality(chain'[p].bits)
      <4>1. p - 1 \in 1..Len(chain) /\ (p - 1) + 1 = p
        BY <1>0, <2>7, <3>3
      <4>2. chain'[p] = chain[p - 1] /\ chain[p - 1].id \in 1..Len(chain)
        BY <1>0, <2>7, <3>2, <4>1, ChainParts
      <4>3. chain[p - 1].id # Len(chain) + 1
        BY <1>0, <4>2
      <4>4. \A n \in Places : <<chain[p - 1].id, n>> \in held' <=> <<chain[p - 1].id, n>> \in held
        BY <2>1, <4>3
      <4>5. /\ chain[p - 1].bits = {n \in Places : <<chain[p - 1].id, n>> \in held}
            /\ chain[p - 1].nUsed = Cardinality(chain[p - 1].bits)
        BY <3>1, <4>1 DEF InStep
      <4> QED BY <4>2, <4>4, <4>5
    <3>4. b.bits = {n \in Places : <<b.id, n>> \in held'}
      <4>1. \A n : <<Len(chain) + 1, n>> \notin held
        BY <1>0
      <4> QED BY <2>1, <2>4, <2>5, <4>1
    <3> QED BY <2>5, <2>7, <3>3, <3>4 DEF InStep
  <2> QED BY <1>0, <2>1, <2>7, <2>8, <2>9, InvMore
<1> QED BY <1>1, <1>2

Used(c, p, n)    == [c EXCEPT ![p] = SetUsed(@, n)]
Cleared(c, p, n) == [c EXCEPT ![p] = ClearUsed(@, n)]

\* A unit of one block is used, or is used no more: the chain is what it was.
LEMMA OneUsed ==
  ASSUME NEW c, IsChain(c), NEW p \in 1..Len(c), NEW n \in Nat
  PROVE  /\ IsChain(Used(c, p, n)) /\ Len(Used(c, p, n)) = Len(c)
         /\ Used(c, p, n)[p] = SetUsed(c[p], n)
         /\ \A q \in 1..Len(c) : q # p => Used(c, p, n)[q] = c[q]
<1> DEFINE d == Used(c, p, n)
<1>1. /\ Len(c) \in Nat /\ c \in Seq(Blocks) /\ DOMAIN c = 1..Len(c)
      /\ \A q \in 1..Len(c) : c[q] \in Blocks
  BY ChainParts DEF IsChain
<1>2. /\ SetUsed(c[p], n) \in Blocks /\ SetUsed(c[p], n).id = c[p].id
      /\ SetUsed(c[p], n).bias = c[p].bias
  BY <1>1, SetUsedOf
<1>3. /\ DOMAIN d = 1..Len(c) /\ d = [q \in 1..Len(c) |-> d[q]]
      /\ d[p] = SetUsed(c[p], n) /\ \A q \in 1..Len(c) : q # p => d[q] = c[q]
  BY <1>1 DEF Used
<1> HIDE DEF d
<1>4. \A q \in 1..Len(c) : d[q] \in Blocks
  BY <1>1, <1>2, <1>3
<1>5. d \in Seq(Blocks) /\ Len(d) = Len(c)
  BY <1>1, <1>3, <1>4
<1>6. \A q \in 1..Len(c) : d[q].id = c[q].id /\ d[q].bias = c[q].bias
  BY <1>2, <1>3
<1>7. IsChain(d)
  BY <1>5, <1>6, ChainOfSameBlocks
<1> QED BY <1>3, <1>5, <1>7 DEF d

LEMMA OneCleared ==
  ASSUME NEW c, IsChain(c), NEW p \in 1..Len(c), NEW n \in Places
  PROVE  /\ IsChain(Cleared(c, p, n)) /\ Len(Cleared(c, p, n)) = Len(c)
         /\ Cleared(c, p, n)[p] = ClearUsed(c[p], n)
         /\ \A q \in 1..Len(c) : q # p => Cleared(c, p, n)[q] = c[q]
<1> DEFINE d == Cleared(c, p, n)
<1>1. /\ Len(c) \in Nat /\ c \in Seq(Blocks) /\ DOMAIN c = 1..Len(c)
      /\ \A q \in 1..Len(c) : c[q] \in Blocks
  BY ChainParts DEF IsChain
<1>2. /\ ClearUsed(c[p], n) \in Blocks /\ ClearUsed(c[p], n).id = c[p].id
      /\ ClearUsed(c[p], n).bias = c[p].bias
  BY <1>1, ClearUsedOf
<1>3. /\ DOMAIN d = 1..Len(c) /\ d = [q \in 1..Len(c) |-> d[q]]
      /\ d[p] = ClearUsed(c[p], n) /\ \A q \in 1..Len(c) : q # p => d[q] = c[q]
  BY <1>1 DEF Cleared
<1> HIDE DEF d
<1>4. \A q \in 1..Len(c) : d[q] \in Blocks
  BY <1>1, <1>2, <1>3
<1>5. d \in Seq(Blocks) /\ Len(d) = Len(c)
  BY <1>1, <1>3, <1>4
<1>6. \A q \in 1..Len(c) : d[q].id = c[q].id /\ d[q].bias = c[q].bias
  BY <1>2, <1>3
<1>7. IsChain(d)
  BY <1>5, <1>6, ChainOfSameBlocks
<1> QED BY <1>3, <1>5, <1>7 DEF d

LEMMA DeleteKeepsInv ==
  ASSUME Inv, NEW u \in held, DeleteFromSet(u)
  PROVE  Inv'
<1> DEFINE p == Position(u[1])
<1>0. IsChain(chain) /\ UNCHANGED client /\ Forget(u) /\ chain' = Cleared(chain, p, u[2])
  BY DEF Inv, DeleteFromSet, Cleared
<1>1. u[1] \in 1..Len(chain) /\ u[2] \in Places /\ u = <<u[1], u[2]>>
  BY DEF Inv
<1>2. p \in 1..Len(chain) /\ chain[p].id = u[1]
  BY <1>1, PositionOf
<1> HIDE DEF p
<1>3. /\ IsChain(chain') /\ Len(chain') = Len(chain) /\ chain'[p] = ClearUsed(chain[p], u[2])
      /\ \A q \in 1..Len(chain) : q # p => chain'[q] = chain[q]
  BY <1>0, <1>1, <1>2, OneCleared
<1>4. ASSUME WellUsed' PROVE InStep(chain', held')
  <2>1. InStep(chain, held)
    BY <1>0, <1>3, <1>4 DEF WellUsed, Inv
  <2>2. u[2] \in chain[p].bits
    BY <1>1, <1>2, <2>1 DEF InStep
  <2>3. held' = held \ {<<chain[p].id, u[2]>>}
    BY <1>0, <1>1, <1>2 DEF Forget
  <2> QED BY <1>0, <1>1, <1>2, <1>3, <2>1, <2>2, <2>3, InStepWithout
<1> QED BY <1>0, <1>3, <1>4, InvLess

\* The caller's own index of a unit leads to it in a set of one block.
LEMMA DeleteMemberKeepsInv ==
  ASSUME Inv, NEW u \in held, DeleteSetMember(u)
  PROVE  Inv'
<1> DEFINE i == Index(u)
           p == CountedBlock(i)
           n == i % PerSet
<1>0. /\ IsChain(chain) /\ Len(chain) \in Nat /\ DOMAIN chain = 1..Len(chain)
      /\ UNCHANGED client /\ Forget(u) /\ client = "indexed"
      /\ chain' = IF p \in DOMAIN chain /\ n \in chain[p].bits
                  THEN Cleared(chain, p, n) ELSE chain
  BY ChainParts DEF Inv, DeleteSetMember, Cleared
<1>1. u[1] \in 1..Len(chain) /\ u[2] \in Places /\ u = <<u[1], u[2]>> /\ u[2] \in Nat
  BY SetsAssumption DEF Inv, Places
<1>2. Position(u[1]) \in 1..Len(chain) /\ chain[Position(u[1])].id = u[1]
  BY <1>1, PositionOf
<1>3. i \in Nat
  <2>1. chain[Position(u[1])].bias \in Nat
    BY <1>0, <1>2, ChainParts
  <2> QED BY <1>1, <2>1 DEF Index
<1>4. n \in Places
  <2> HIDE DEF i
  <2> QED BY <1>3, DivisionOf
<1>ids. \A q \in 1..Len(chain) : chain[q].id \in 1..Len(chain)
  BY <1>0, ChainParts
<1>len. Len(chain') = Len(chain)
  <2>1. CASE p \in DOMAIN chain /\ n \in chain[p].bits
    <3> HIDE DEF p, n
    <3> QED BY <1>0, <1>4, <2>1, OneCleared
  <2> QED BY <1>0, <2>1
<1>5. ASSUME WellUsed'
      PROVE  /\ InStep(chain, held) /\ p = 1 /\ n = u[2] /\ 1 \in DOMAIN chain
             /\ chain[1].id = u[1] /\ n \in chain[1].bits
  <2>2. Len(chain) = 1 /\ InStep(chain, held)
    BY <1>0, <1>1, <1>5, <1>len DEF WellUsed, Inv
  <2>3. chain[1].id = 1 /\ u[1] = 1 /\ Position(u[1]) = 1
    BY <1>ids, <1>1, <1>2, <2>2
  <2>4. chain[1].bias = 0
    <3>1. 1 \in 1..Len(chain)
      BY <2>2
    <3>2. chain[1].bias = Begin(chain[1].id)
      BY <1>0, <3>1, ChainParts
    <3> QED BY <2>3, <3>2, BeginsOf
  <2>5. i = u[2]
    BY <1>1, <2>3, <2>4 DEF Index
  <2>6. PerSet \in Nat \ {0} /\ u[2] \in 0..(PerSet - 1)
    BY <1>1, SetsAssumption DEF Places
  <2>7. u[2] \div PerSet = 0 /\ u[2] % PerSet = u[2]
    BY <2>6
  <2>8. u[2] \in chain[1].bits
    BY <1>1, <2>2, <2>3 DEF InStep
  <2> QED BY <1>0, <2>2, <2>3, <2>5, <2>7, <2>8 DEF CountedBlock
<1> HIDE DEF p, n
<1>6. CASE p \in DOMAIN chain /\ n \in chain[p].bits
  <2>1. /\ IsChain(chain') /\ Len(chain') = Len(chain) /\ chain'[p] = ClearUsed(chain[p], n)
        /\ \A q \in 1..Len(chain) : q # p => chain'[q] = chain[q]
    BY <1>0, <1>4, <1>6, OneCleared
  <2>2. ASSUME WellUsed' PROVE InStep(chain', held')
    <3>1. InStep(chain, held) /\ held' = held \ {<<chain[p].id, n>>}
      BY <1>0, <1>1, <1>5, <2>2 DEF Forget
    <3> QED BY <1>0, <1>4, <1>6, <2>1, <3>1, InStepWithout
  <2> QED BY <1>0, <2>1, <2>2, InvLess
<1>7. CASE ~(p \in DOMAIN chain /\ n \in chain[p].bits)
  <2>1. chain' = chain /\ ~WellUsed'
    BY <1>0, <1>5, <1>7
  <2> QED BY <1>0, <2>1, InvLess
<1> QED BY <1>6, <1>7

LEMMA DeleteSetKeepsInv == Inv /\ DeleteSet => Inv'
<1> SUFFICES ASSUME Inv, DeleteSet PROVE Inv'
  OBVIOUS
<1>1. /\ UNCHANGED <<client, walk>> /\ chain' = <<>> /\ held' = {}
      /\ MaxBlocks[client] \in Nat /\ walk = NoWalk
  BY SetsAssumption DEF Inv, DeleteSet
<1>2. Len(chain') = 0 /\ chain' \in Seq(Blocks)'
  BY <1>1
<1>3. IsChain(chain)'
  BY <1>1, <1>2 DEF IsChain
<1>4. walk' \in Walks'
  BY <1>1 DEF Inv, Walks, Units
<1> QED BY <1>1, <1>2, <1>3, <1>4 DEF Inv, Walking, NoWalk, NoBlock, InStep

\* What is held is in step with the chain that is extended.
LEMMA ReachingInStep ==
  ASSUME Inv, NEW i \in Indexes[client], InStep(chain, held)
  PROVE  InStep(Reaching(chain, i), held)
<1> DEFINE d == Reaching(chain, i)
<1>0. IsChain(chain) /\ Len(chain) \in Nat
  BY ChainParts DEF Inv
<1>1. /\ IsChain(d) /\ Len(chain) <= Len(d) /\ \A p \in 1..Len(chain) : d[p] = chain[p]
      /\ \A p \in 1..Len(d) :
           p > Len(chain) => d[p].id = p /\ d[p].bits = {} /\ d[p].nUsed = 0
  BY <1>0, ReachingOfChain DEF Inv
<1>2. Len(d) \in Nat
  BY <1>1, ChainParts
<1> HIDE DEF d
<1>3. ASSUME NEW p \in 1..Len(d)
      PROVE  /\ d[p].bits = {n \in Places : <<d[p].id, n>> \in held}
             /\ d[p].nUsed = Cardinality(d[p].bits)
  <2>1. CASE p \in 1..Len(chain)
    BY <1>1, <2>1 DEF InStep
  <2>2. CASE p > Len(chain)
    <3>1. \A n : <<p, n>> \notin held
      BY <1>0, <2>2 DEF Inv
    <3> QED BY <1>1, <2>2, <3>1, FS_EmptySet
  <2> QED BY <1>0, <1>2, <2>1, <2>2
<1>4. InStep(d, held)
  BY <1>3 DEF InStep
<1> QED BY <1>4 DEF d

LEMMA GetUsedKeepsInv ==
  ASSUME Inv, NEW i \in Indexes[client], GetUsedSetMember(i)
  PROVE  Inv'
<1>0. /\ UNCHANGED <<client, held, walk>> /\ chain' = Reaching(chain, i)
      /\ IsChain(chain) /\ Len(chain) \in Nat
  BY ChainParts DEF Inv, GetUsedSetMember
<1>1. IsChain(chain') /\ Len(chain) <= Len(chain')
  BY <1>0, ReachingOfChain DEF Inv
<1>2. Len(chain') \in Nat
  BY <1>1, ChainParts
<1>3. WellUsed' => InStep(chain', held')
  BY <1>0, <1>1, <1>2, WellUsedBefore, ReachingInStep DEF Inv
<1>4. held' \subseteq (1..Len(chain')) \X Places
  BY <1>0, <1>1, <1>2 DEF Inv
<1> QED BY <1>0, <1>1, <1>3, <1>4, InvMore

\* In a set of one block, the bit that is set is that of the unit that is returned.
LEMMA GetMemberKeepsInv ==
  ASSUME Inv, NEW i \in Indexes[client], GetSetMember(i)
  PROVE  Inv'
<1> DEFINE c == Reaching(chain, i)
<1>0. /\ UNCHANGED <<client, walk>> /\ client = "indexed" /\ chain' = MarkMember(c, i)
      /\ held' = held \cup {Member(c, i)} /\ IsChain(chain) /\ Len(chain) \in Nat
  BY ChainParts DEF Inv, GetSetMember
<1>1. IsChain(c) /\ Len(chain) <= Len(c) /\ i \in Nat /\ i < PerSet * Len(c)
  BY <1>0, ReachingOfChain DEF Inv
<1>ids. InStep(chain, held) => InStep(c, held)
  BY ReachingInStep
<1> HIDE DEF c
<1>2. /\ Len(c) \in Nat /\ DOMAIN c = 1..Len(c)
      /\ \A p \in 1..Len(c) : c[p].id \in 1..Len(c) /\ c[p].bias = Begin(c[p].id)
  BY <1>1, ChainParts
<1>3. PICK q \in 1..Len(c) : Covering(c, i) = {q} /\ i - c[q].bias = i % PerSet
  BY <1>1, CoveredOnce
<1>4. Least(Covering(c, i)) = q
  <2>1. {q} \in SUBSET Nat /\ {q} # {}
    BY <1>2
  <2>2. Least({q}) \in {q}
    BY <2>1, LeastOf
  <2> QED BY <1>3, <2>2
<1>5. i % PerSet \in Places
  BY <1>1, DivisionOf
<1>6. Member(c, i) = <<c[q].id, i % PerSet>> /\ (Marked(c, i) <=> i % PerSet \in c[q].bits)
  BY <1>3, <1>4 DEF Member, Marked
<1>7. /\ IsChain(chain') /\ Len(chain') = Len(c)
      /\ chain' = IF Marked(c, i) THEN c ELSE Used(c, 1, i)
  <2>1. 1 \in 1..Len(c)
    BY <1>2
  <2> QED BY <1>0, <1>1, <2>1, OneUsed DEF MarkMember, Used
<1>8. held' \subseteq (1..Len(chain')) \X Places
  <2>1. c[q].id \in 1..Len(c)
    BY <1>2
  <2>2. held \subseteq (1..Len(chain)) \X Places
    BY DEF Inv
  <2> QED BY <1>0, <1>1, <1>2, <1>5, <1>6, <1>7, <2>1, <2>2
<1>9. ASSUME WellUsed' PROVE InStep(chain', held')
  <2>1. Len(c) = 1 /\ q = 1
    BY <1>0, <1>2, <1>7, <1>9 DEF WellUsed
  <2>2. InStep(c, held)
    BY <1>0, <1>1, <1>2, <1>7, <1>9, <1>ids, WellUsedBefore DEF Inv
  <2>3. c[1].id = 1 /\ i % PerSet = i
    BY <1>1, <1>2, <1>3, <2>1, BeginsOf
  <2>4. CASE Marked(c, i)
    <3>1. <<c[1].id, i>> \in held
      BY <1>5, <1>6, <2>1, <2>2, <2>3, <2>4 DEF InStep
    <3>2. held' = held
      BY <1>0, <1>6, <2>1, <2>3, <3>1
    <3> QED BY <1>7, <2>2, <2>4, <3>2
  <2>5. CASE ~Marked(c, i)
    <3>1. 1 \in 1..Len(c) /\ i \in Places /\ i \notin c[1].bits
      BY <1>5, <1>6, <2>1, <2>3, <2>5
    <3>2. /\ chain'[1] = SetUsed(c[1], i) /\ \A p \in 1..Len(c) : p # 1 => chain'[p] = c[p]
      BY <1>1, <1>7, <2>5, <3>1, OneUsed
    <3>3. held' = held \cup {<<c[1].id, i>>}
      BY <1>0, <1>6, <2>1, <2>3
    <3> QED BY <1>1, <1>7, <2>2, <3>1, <3>2, <3>3, InStepWith
  <2> QED BY <2>4, <2>5
<1> QED BY <1>0, <1>1, <1>7, <1>8, <1>9, InvMore
-----------------------------------------------------------------------------
\* A step of a walk.
LEMMA InvWalk ==
  ASSUME Inv, UNCHANGED <<client, chain, held>>, walk' \in Walks, walk'.block \in 0..Len(chain),
         walk'.due \subseteq held, walk'.kind = "none" => walk' = NoWalk,
         walk'.calling => walk'.n \in Places /\ walk'.block # NoBlock
  PROVE  Inv'
<1>1. IsChain(chain)' /\ (InStep(chain, held) => InStep(chain, held)') /\ (WellUsed' => WellUsed)
  BY DEF Inv, IsChain, Blocks, InStep, WellUsed
<1>2. walk' \in Walks'
  BY DEF Walks, Units
<1> QED BY <1>1, <1>2 DEF Inv, Walking

LEMMA WalkKeepsInv ==
  ASSUME Inv, \/ \E kind \in {"all", "each"} : StartWalk(kind)
              \/ WalkCalls \/ WalkGoesOn \/ WalkStops \/ WalkSkips \/ WalkNext \/ WalkEnds
  PROVE  Inv'
<1>0. /\ IsChain(chain) /\ Len(chain) \in Nat /\ DOMAIN chain = 1..Len(chain)
      /\ \A p \in 1..Len(chain) : chain[p].id \in 1..Len(chain)
  BY ChainParts DEF Inv
<1>1. PerSet \in Nat \ {0} /\ Places = 0..(PerSet - 1)
  BY SetsAssumption DEF Places
<1>2. /\ walk \in Walks /\ walk.block \in 0..Len(chain) /\ walk.due \subseteq held
      /\ walk.calling => walk.n \in Places /\ walk.block # NoBlock
      /\ ~Walking => walk = NoWalk /\ ~walk.calling
      /\ held \subseteq Units
  <2>1. held \subseteq Units
    BY <1>0, SetsAssumption DEF Inv, IsChain, Units
  <2> QED BY <2>1 DEF Inv, NoWalk
<1>3. /\ NoWalk \in Walks /\ NoWalk.block = NoBlock /\ NoWalk.due = {} /\ ~NoWalk.calling
      /\ NoBlock = 0
  BY <1>1 DEF NoWalk, Walks, NoBlock
<1>4. ASSUME NEW kind \in {"all", "each"}, StartWalk(kind) PROVE Inv'
  <2>1. /\ walk' = [NoWalk EXCEPT !.kind = kind, !.block = chain[1].id, !.due = held]
        /\ UNCHANGED <<client, chain, held>> /\ chain # <<>>
    BY <1>4 DEF StartWalk
  <2>2. chain[1].id \in 1..Len(chain)
    BY <1>0, <2>1
  <2>3. /\ walk' \in Walks /\ walk'.block = chain[1].id /\ walk'.due = held /\ walk'.kind = kind
        /\ ~walk'.calling
    <3>1. chain[1].id \in Nat /\ 0 \in 0..PerSet /\ kind \in {"none", "all", "each"}
      BY <1>0, <1>1, <2>2
    <3>2. walk' = [kind |-> kind, block |-> chain[1].id, n |-> 0, nFound |-> 0, total |-> 0,
                   calling |-> FALSE, due |-> held, deleted |-> FALSE]
      BY <2>1 DEF NoWalk
    <3> QED BY <1>2, <3>1, <3>2 DEF Walks
  <2> QED BY <1>0, <2>1, <2>2, <2>3, InvWalk
<1>5. CASE WalkCalls
  <2>1. /\ walk' = [walk EXCEPT !.calling = TRUE, !.due = @ \ Met, !.nFound = @ + 1]
        /\ UNCHANGED <<client, chain, held>> /\ Walking /\ walk.block # NoBlock /\ walk.n < PerSet
    BY <1>5 DEF WalkCalls, AtBit
  <2>2. /\ walk' \in Walks /\ walk'.block = walk.block /\ walk'.due \subseteq walk.due
        /\ walk'.kind = walk.kind /\ walk'.n = walk.n
    <3> DEFINE due == walk.due \ Met
    <3>1. due \in SUBSET Units /\ due \subseteq walk.due /\ walk.nFound + 1 \in Nat
      BY <1>2 DEF Walks
    <3>2. walk' = [walk EXCEPT !.calling = TRUE, !.due = due, !.nFound = walk.nFound + 1]
      BY <1>2, <2>1 DEF Walks
    <3> HIDE DEF due
    <3> QED BY <1>2, <3>1, <3>2 DEF Walks
  <2>3. walk.n \in Places
    BY <1>1, <1>2, <2>1 DEF Walks
  <2> QED BY <1>2, <2>1, <2>2, <2>3, InvWalk DEF Walking
<1>6. CASE WalkGoesOn
  <2>1. /\ walk' = [walk EXCEPT !.calling = FALSE, !.n = @ + 1]
        /\ UNCHANGED <<client, chain, held>> /\ walk.calling /\ Walking
    BY <1>2, <1>6 DEF WalkGoesOn
  <2>2. walk.n + 1 \in 0..PerSet
    BY <1>1, <1>2, <2>1
  <2>3. /\ walk' \in Walks /\ walk'.block = walk.block /\ walk'.due = walk.due
        /\ walk'.kind = walk.kind /\ ~walk'.calling
    BY <1>2, <2>1, <2>2 DEF Walks
  <2> QED BY <1>2, <2>1, <2>3, InvWalk DEF Walking
<1>7. CASE WalkStops \/ WalkEnds
  <2>1. walk' = NoWalk /\ UNCHANGED <<client, chain, held>>
    BY <1>7 DEF WalkStops, WalkEnds
  <2> QED BY <1>0, <1>3, <2>1, InvWalk
<1>8. CASE WalkSkips
  <2>1. /\ walk' = [walk EXCEPT !.n = @ + 1] /\ ~walk.calling
        /\ UNCHANGED <<client, chain, held>> /\ walk.n < PerSet /\ Walking
    BY <1>8 DEF WalkSkips, AtBit
  <2>2. walk.n + 1 \in 0..PerSet
    BY <1>1, <1>2, <2>1 DEF Walks
  <2>3. /\ walk' \in Walks /\ walk'.block = walk.block /\ walk'.due = walk.due
        /\ walk'.kind = walk.kind /\ ~walk'.calling
    BY <1>2, <2>1, <2>2 DEF Walks
  <2> QED BY <1>2, <2>1, <2>3, InvWalk DEF Walking
<1>9. CASE WalkNext
  <2> DEFINE p == Position(walk.block)
             b == IF p < Len(chain) THEN chain[p + 1].id ELSE NoBlock
             t == IF walk.kind = "each" THEN walk.total + walk.n ELSE walk.total
  <2>1. /\ walk' = [walk EXCEPT !.block = b, !.total = t, !.n = 0, !.nFound = 0]
        /\ UNCHANGED <<client, chain, held>> /\ ~walk.calling /\ Walking /\ walk.block # NoBlock
    BY <1>9 DEF WalkNext
  <2>2. p \in 1..Len(chain)
    BY <1>0, <1>2, <1>3, <2>1, PositionOf
  <2> HIDE DEF p
  <2>3. b \in 0..Len(chain) /\ b \in Nat
    <3>1. p < Len(chain) => p + 1 \in 1..Len(chain)
      BY <1>0, <2>2
    <3> QED BY <1>0, <1>3, <3>1
  <2>4. t \in Nat
    BY <1>1, <1>2 DEF Walks
  <2> HIDE DEF b, t
  <2>5. /\ walk' \in Walks /\ walk'.block = b /\ walk'.due = walk.due
        /\ walk'.kind = walk.kind /\ ~walk'.calling
    <3>1. 0 \in 0..PerSet /\ 0 \in Nat
      BY <1>1
    <3> QED BY <1>2, <2>1, <2>3, <2>4, <3>1 DEF Walks
  <2> QED BY <1>2, <2>1, <2>3, <2>5, InvWalk DEF Walking
<1> QED BY <1>4, <1>5, <1>6, <1>7, <1>8, <1>9
-----------------------------------------------------------------------------
(***************************************************************************)
(* The theorems                                                            *)
(***************************************************************************)
LEMMA InvNext == Inv /\ [Next]_vars => Inv'
<1> SUFFICES ASSUME Inv, [Next]_vars PROVE Inv'
  OBVIOUS
<1>1. CASE UNCHANGED vars
  BY <1>1 DEF vars, Inv, IsChain, Blocks, Walks, Units, Walking, WellUsed, InStep
<1>2. ASSUME NEW u \in held, DeleteFromSet(u) \/ DeleteSetMember(u) PROVE Inv'
  BY <1>2, DeleteKeepsInv, DeleteMemberKeepsInv
<1>3. ASSUME NEW i \in Indexes[client], GetUsedSetMember(i) \/ GetSetMember(i) PROVE Inv'
  BY <1>3, GetUsedKeepsInv, GetMemberKeepsInv
<1> QED BY <1>1, <1>2, <1>3, GetKeepsInv, DeleteSetKeepsInv, WalkKeepsInv DEF Next

LEMMA InvAlways == Spec => []Inv
BY InvInit, InvNext, PTL DEF Spec

\* Every variable has its type, whatever the caller and the callbacks of its walks call.
THEOREM TypeCorrect == Spec => []TypeOK
<1>1. Inv => TypeOK
  <2> SUFFICES ASSUME Inv PROVE TypeOK
    OBVIOUS
  <2>1. /\ Len(chain) \in Nat /\ DOMAIN chain = 1..Len(chain)
        /\ \A k \in 1..Len(chain) : \E p \in 1..Len(chain) : chain[p].id = k
    BY ChainParts DEF Inv
  <2>2. chain \in Seq(Blocks) /\ Len(chain) <= MaxBlocks[client]
    BY DEF Inv, IsChain
  <2>3. held \subseteq Units
    BY <2>1, <2>2, SetsAssumption DEF Inv, Units
  <2>4. walk.block \in {NoBlock} \cup {chain[p].id : p \in DOMAIN chain}
    <3>1. walk.block = 0 \/ walk.block \in 1..Len(chain)
      BY <2>1 DEF Inv
    <3> QED BY <2>1, <3>1 DEF NoBlock
  <2> QED BY <2>2, <2>3, <2>4 DEF Inv, TypeOK
<1> QED BY <1>1, InvAlways, PTL

\* Each index is that of one unit, in whatever order blocks were put at the two ends of the
\* chain: GetMemberIndex and GetUsedSetMember agree, and a search ends.
THEOREM IndexLeadsBackAlways == Spec => []IndexLeadsBack
<1>1. Inv => IndexLeadsBack
  <2> SUFFICES ASSUME Inv PROVE IndexLeadsBack
    OBVIOUS
  <2>1. /\ IsChain(chain) /\ Len(chain) \in Nat /\ DOMAIN chain = 1..Len(chain)
        /\ \A p, q \in 1..Len(chain) : chain[p].id = chain[q].id => p = q
    BY ChainParts DEF Inv
  <2>2. ASSUME NEW i \in 0..(PerSet * Len(chain) - 1)
        PROVE  \E p \in DOMAIN chain : Covering(chain, i) = {p}
    <3>1. PerSet * Len(chain) \in Nat
      BY <2>1, SetsAssumption
    <3>2. i \in Nat /\ i < PerSet * Len(chain)
      BY <3>1
    <3> QED BY <2>1, <3>2, CoveredOnce
  <2> QED BY <2>1, <2>2 DEF IndexLeadsBack
<1> QED BY <1>1, InvAlways, PTL

\* As long as what is asked for by index is in one block, no unit is given out twice or
\* lost, and the count of each block is that of its bits and never wraps.
THEOREM UsedIsHeldAlways == Spec => []UsedIsHeld
<1>1. Inv => UsedIsHeld
  BY ChainParts DEF Inv, UsedIsHeld, InStep
<1> QED BY <1>1, InvAlways, PTL
-----------------------------------------------------------------------------
(***************************************************************************)
(* What walks meet                                                         *)
(***************************************************************************)
\* The walks that are to meet all that was held all the while.
Meets ==
  \/ walk.kind = "all" /\ WellUsed
  \/ walk.kind = "each" /\ Len(chain) <= 1 /\ ~walk.deleted

\* The units in use of the block b that the walk w has called back for.
Passed(b, w) == {m \in b.bits : m < w.n \/ (m = w.n /\ w.calling)}

\* What is due is ahead of the walk: in a later block of the chain, whatever was put at its
\* ends, or at a later place of the same block.  ForEachSetMember has counted no more units
\* than it has passed.
OnWay(c, w) ==
  /\ w.block = NoBlock => w.due = {}
  /\ \A u \in w.due : \A p, q \in 1..Len(c) :
       c[p].id = w.block /\ c[q].id = u[1] =>
         p < q \/ (p = q /\ (w.n < u[2] \/ (w.n = u[2] /\ ~w.calling)))
  /\ w.kind = "each" /\ w.block # NoBlock =>
       w.total = 0 /\ w.nFound <= Cardinality(Passed(c[1], w))

WalkInv == Meets => OnWay(chain, walk)

\* Where a set has one block, the walk is in it, and indexes are places.
LEMMA InOneBlock ==
  ASSUME Inv, Len(chain) <= 1, walk.block # NoBlock
  PROVE  /\ Len(chain) = 1 /\ walk.block = 1 /\ Position(walk.block) = 1 /\ Here = chain[1]
         /\ chain[1].id = 1 /\ chain[1].bias = 0
         /\ \A u \in held : u = <<1, u[2]>> /\ u[2] \in Places /\ Index(u) = u[2]
<1>0. /\ IsChain(chain) /\ Len(chain) \in Nat /\ walk.block \in 0..Len(chain)
      /\ held \subseteq (1..Len(chain)) \X Places
      /\ \A p \in 1..Len(chain) : chain[p].id \in 1..Len(chain) /\ chain[p].bias = Begin(chain[p].id)
  BY ChainParts DEF Inv
<1>1. Len(chain) = 1 /\ walk.block = 1
  <2> DEFINE a == Len(chain)
             b == walk.block
  <2>1. a \in Nat /\ a <= 1 /\ b \in 0..a /\ b # 0
    BY <1>0 DEF NoBlock
  <2> HIDE DEF a, b
  <2>2. a = 1 /\ b = 1
    BY <2>1
  <2> QED BY <2>2 DEF a, b
<1>2. chain[1].id = 1 /\ chain[1].bias = 0
  BY <1>0, <1>1, BeginsOf
<1>3. Position(1) = 1
  BY <1>1, PositionOf
<1>4. ASSUME NEW u \in held PROVE u = <<1, u[2]>> /\ u[2] \in Places /\ Index(u) = u[2]
  <2>1. u \in (1..1) \X Places /\ PerSet \in Nat
    BY <1>0, <1>1, SetsAssumption
  <2>2. u[1] = 1 /\ u[2] \in Places /\ u[2] \in Nat /\ u = <<u[1], u[2]>>
    BY <2>1 DEF Places
  <2> QED BY <1>2, <1>3, <2>2 DEF Index
<1> QED BY <1>1, <1>2, <1>3, <1>4 DEF Here

LEMMA PassedCounted ==
  ASSUME NEW b \in Blocks, NEW w
  PROVE  /\ IsFiniteSet(Passed(b, w)) /\ Passed(b, w) \in SUBSET Places
         /\ Cardinality(Passed(b, w)) \in Nat
<1>1. Passed(b, w) \in SUBSET Places
  BY BlockParts DEF Passed
<1> QED BY <1>1, PlacesCounted

\* Units are taken and blocks put at the ends, s of them at the head.
LEMMA GrowsOnWay ==
  ASSUME Inv, WalkInv, Inv', Calls, UNCHANGED <<client, walk>>, NEW s \in Nat,
         Len(chain) + s <= Len(chain'),
         \A p \in 1..Len(chain) : chain'[p + s].id = chain[p].id,
         Len(chain') = 1 /\ Len(chain) = 1 => chain[1].bits \subseteq chain'[1].bits
  PROVE  WalkInv'
<1> SUFFICES ASSUME Meets' PROVE OnWay(chain', walk)
  BY DEF WalkInv
<1>0. /\ IsChain(chain) /\ Len(chain) \in Nat /\ IsChain(chain)' /\ Len(chain') \in Nat
      /\ \A p, q \in 1..Len(chain') : chain'[p].id = chain'[q].id => p = q
      /\ \A k \in 1..Len(chain) : \E p \in 1..Len(chain) : chain[p].id = k
      /\ \A p \in 1..Len(chain) : chain[p] \in Blocks
      /\ \A p \in 1..Len(chain') : chain'[p] \in Blocks
  <2>1. IsChain(chain) /\ IsChain(chain)'
    BY DEF Inv
  <2>2. IsChain(chain')
    BY <2>1 DEF IsChain, Blocks
  <2> QED BY <2>1, <2>2, ChainParts
<1>1. walk.calling /\ walk.block # NoBlock /\ walk.block \in 1..Len(chain)
  <2>1. Walking
    BY DEF Meets, Walking
  <2> QED BY <2>1 DEF Calls, Inv, NoBlock
<1>2. Len(chain) <= Len(chain')
  BY <1>0
<1>3. Meets
  <2>1. WellUsed' => WellUsed
    BY <1>0, <1>2, WellUsedBefore
  <2> QED BY <1>0, <1>2, <2>1 DEF Meets
<1>4. OnWay(chain, walk)
  BY <1>3 DEF WalkInv
<1>5. ASSUME NEW u \in walk.due, NEW p \in 1..Len(chain'), NEW q \in 1..Len(chain'),
             chain'[p].id = walk.block, chain'[q].id = u[1]
      PROVE  p < q \/ (p = q /\ (walk.n < u[2] \/ (walk.n = u[2] /\ ~walk.calling)))
  <2>1. u[1] \in 1..Len(chain)
    BY DEF Inv
  <2>2. PICK x \in 1..Len(chain) : chain[x].id = walk.block
    BY <1>0, <1>1
  <2>3. PICK y \in 1..Len(chain) : chain[y].id = u[1]
    BY <1>0, <2>1
  <2>4. p = x + s /\ q = y + s
    <3>1. x + s \in 1..Len(chain') /\ y + s \in 1..Len(chain')
      <4> DEFINE a == Len(chain)
                 b == Len(chain')
      <4>1. a \in Nat /\ b \in Nat /\ a + s <= b /\ x \in 1..a /\ y \in 1..a
        BY <1>0
      <4> HIDE DEF a, b
      <4>2. x + s \in 1..b /\ y + s \in 1..b
        BY <4>1
      <4> QED BY <4>2 DEF b
    <3>2. chain'[x + s].id = walk.block /\ chain'[y + s].id = u[1]
      BY <2>2, <2>3
    <3>3. chain'[p].id = chain'[x + s].id /\ chain'[q].id = chain'[y + s].id
      BY <1>5, <3>2
    <3> QED BY <1>0, <3>1, <3>3
  <2>5. x < y \/ (x = y /\ (walk.n < u[2] \/ (walk.n = u[2] /\ ~walk.calling)))
    BY <1>4, <2>2, <2>3 DEF OnWay
  <2> QED BY <2>4, <2>5
<1>6. ASSUME walk.kind = "each"
      PROVE  walk.total = 0 /\ walk.nFound <= Cardinality(Passed(chain'[1], walk))
  <2>1. Len(chain') = 1 /\ Len(chain) = 1
    <3>1. walk'.kind = "each"
      BY <1>6
    <3>2. Len(chain') <= 1
      BY <3>1 DEF Meets
    <3>3. Len(chain) \in Nat /\ Len(chain') \in Nat /\ Len(chain) # 0
      BY <1>0, <1>1
    <3> DEFINE a == Len(chain)
               b == Len(chain')
    <3>4. a \in Nat /\ b \in Nat /\ a # 0 /\ a <= b /\ b <= 1
      BY <1>2, <3>2, <3>3
    <3> HIDE DEF a, b
    <3>5. a = 1 /\ b = 1
      BY <3>4
    <3> QED BY <3>5 DEF a, b
  <2>2. chain[1] \in Blocks /\ chain'[1] \in Blocks
    <3>1. 1 \in 1..Len(chain) /\ 1 \in 1..Len(chain')
      BY <2>1
    <3> QED BY <1>0, <3>1
  <2>3. Passed(chain[1], walk) \subseteq Passed(chain'[1], walk)
    BY <2>1 DEF Passed
  <2>4. Cardinality(Passed(chain[1], walk)) <= Cardinality(Passed(chain'[1], walk))
    BY <2>2, <2>3, PassedCounted, FS_Subset
  <2>5. walk.total = 0 /\ walk.nFound <= Cardinality(Passed(chain[1], walk))
    BY <1>1, <1>4, <1>6 DEF OnWay
  <2>6. walk.nFound \in Nat /\ Cardinality(Passed(chain[1], walk)) \in Nat
        /\ Cardinality(Passed(chain'[1], walk)) \in Nat
    BY <2>2, PassedCounted DEF Inv, Walks
  <2> QED BY <2>4, <2>5, <2>6
<1> QED BY <1>1, <1>5, <1>6 DEF OnWay

LEMMA GetOnWay == Inv /\ WalkInv /\ Inv' /\ GetFromSet => WalkInv'
<1> SUFFICES ASSUME Inv, WalkInv, Inv', GetFromSet PROVE WalkInv'
  OBVIOUS
<1>0. /\ IsChain(chain) /\ Len(chain) \in Nat /\ DOMAIN chain = 1..Len(chain)
      /\ UNCHANGED <<client, walk>> /\ Calls
      /\ \A p \in 1..Len(chain) : chain[p] \in Blocks
  BY ChainParts DEF Inv, GetFromSet
<1>1. CASE Open(chain) # {}
  <2> DEFINE p == Least(Open(chain))
             n == Least(Places \ chain[p].bits)
             k == Corrected(chain, p - 1)
             d == [k EXCEPT ![p] = SetUsed(@, n)]
  <2>1. p \in 1..Len(chain) /\ p \in Nat \ {0}
    <3>1. Open(chain) \in SUBSET Nat
      BY <1>0 DEF Open
    <3>2. p \in Open(chain)
      BY <1>1, <3>1, LeastOf
    <3> QED BY <1>0, <3>2 DEF Open
  <2>2. chain' = d
    BY <1>1 DEF GetFromSet, TakenAt
  <2> HIDE DEF p, n, d
  <2>3. k = [q \in 1..Len(chain) |->
               IF q <= p - 1 /\ ~HasFree(chain[q]) THEN [chain[q] EXCEPT !.nUsed = PerSet]
                                                   ELSE chain[q]]
    BY <1>0 DEF Corrected
  <2> HIDE DEF k
  <2>4. ASSUME NEW q \in 1..Len(chain)
        PROVE  k[q].id = chain[q].id /\ k[q].bits = chain[q].bits
    <3>1. k[q] = chain[q] \/ k[q] = [chain[q] EXCEPT !.nUsed = PerSet]
      BY <2>3
    <3>2. chain[q] \in Blocks
      BY <1>0
    <3> QED BY <3>1, <3>2 DEF Blocks
  <2>5. d = [q \in 1..Len(chain) |-> IF q = p THEN SetUsed(k[p], n) ELSE k[q]]
    BY <2>1, <2>3 DEF d
  <2>6. k[p] \in Blocks
    <3>1. PerSet \in Counts
      BY SetsAssumption, CountsFit
    <3>2. k[p] = chain[p] /\ chain[p] \in Blocks
      BY <1>0, <2>1, <2>3
    <3> QED BY <3>2
  <2>7. SetUsed(k[p], n).id = k[p].id /\ k[p].bits \subseteq SetUsed(k[p], n).bits
    BY <2>6 DEF SetUsed, Blocks
  <2>8. \A q \in 1..Len(chain) : d[q].id = chain[q].id /\ chain[q].bits \subseteq d[q].bits
    BY <2>4, <2>5, <2>7
  <2>9. Len(chain') = Len(chain)
    BY <1>0, <2>2, <2>5
  <2>10. \A q \in 1..Len(chain) : chain'[q + 0].id = chain[q].id
    BY <2>2, <2>8
  <2>11. Len(chain) = 1 => chain[1].bits \subseteq chain'[1].bits
    BY <2>2, <2>8
  <2>12. Len(chain) + 0 <= Len(chain') /\ 0 \in Nat
    BY <1>0, <2>9
  <2> QED BY <1>0, <2>10, <2>11, <2>12, GrowsOnWay
<1>2. CASE Open(chain) = {}
  <2> DEFINE k == Corrected(chain, Len(chain))
             b == Block(Len(chain) + 1, NextBias(chain), {0})
  <2>1. chain' = <<b>> \o k
    BY <1>2 DEF GetFromSet, TakenAnew
  <2>2. k = [q \in 1..Len(chain) |->
               IF q <= Len(chain) /\ ~HasFree(chain[q])
               THEN [chain[q] EXCEPT !.nUsed = PerSet] ELSE chain[q]]
    BY <1>0 DEF Corrected
  <2>3. k \in Seq(Blocks) /\ Len(k) = Len(chain)
    <3>1. IsChain(k) /\ Len(k) = Len(chain)
      BY <1>0, CorrectedOf
    <3> QED BY <3>1 DEF IsChain
  <2> HIDE DEF k, b
  <2>4. ASSUME NEW q \in 1..Len(chain) PROVE k[q].id = chain[q].id
    <3>1. k[q] = chain[q] \/ k[q] = [chain[q] EXCEPT !.nUsed = PerSet]
      BY <2>2
    <3>2. chain[q] \in Blocks
      BY <1>0
    <3> QED BY <3>1, <3>2 DEF Blocks
  <2>5. Len(chain') = Len(chain) + 1 /\ \A q \in 1..Len(chain) : chain'[q + 1] = k[q]
    BY <1>0, <2>1, <2>3
  <2>6. ~(Len(chain') = 1 /\ Len(chain) = 1) /\ Len(chain) + 1 <= Len(chain') /\ 1 \in Nat
    BY <1>0, <2>5
  <2>7. \A q \in 1..Len(chain) : chain'[q + 1].id = chain[q].id
    BY <2>4, <2>5
  <2> QED BY <1>0, <2>6, <2>7, GrowsOnWay
<1> QED BY <1>1, <1>2

LEMMA GetUsedOnWay ==
  ASSUME Inv, WalkInv, Inv', NEW i \in Indexes[client], GetUsedSetMember(i)
  PROVE  WalkInv'
<1>1. /\ UNCHANGED <<client, walk>> /\ Calls /\ chain' = Reaching(chain, i)
      /\ IsChain(chain) /\ Len(chain) \in Nat /\ client \in Clients
  BY ChainParts DEF Inv, GetUsedSetMember
<1>2. Len(chain) <= Len(chain') /\ \A p \in 1..Len(chain) : chain'[p] = chain[p]
  BY <1>1, ReachingOfChain
<1>3. /\ Len(chain) + 0 <= Len(chain') /\ 0 \in Nat
      /\ \A p \in 1..Len(chain) : chain'[p + 0].id = chain[p].id
      /\ Len(chain) = 1 => chain[1].bits \subseteq chain'[1].bits
  BY <1>1, <1>2
<1> QED BY <1>1, <1>3, GrowsOnWay

LEMMA GetMemberOnWay ==
  ASSUME Inv, WalkInv, Inv', NEW i \in Indexes[client], GetSetMember(i)
  PROVE  WalkInv'
<1> DEFINE c == Reaching(chain, i)
<1>1. /\ UNCHANGED <<client, walk>> /\ Calls /\ chain' = MarkMember(c, i)
      /\ IsChain(chain) /\ Len(chain) \in Nat /\ client \in Clients
  BY ChainParts DEF Inv, GetSetMember
<1>2. /\ Len(chain) <= Len(c) /\ \A p \in 1..Len(chain) : c[p] = chain[p]
      /\ IsChain(c) /\ i \in Nat /\ i < PerSet * Len(c)
  BY <1>1, ReachingOfChain
<1> HIDE DEF c
<1>3. Len(c) \in Nat /\ \A p \in 1..Len(c) : c[p] \in Blocks
  BY <1>2, ChainParts
<1>4. 1 \in 1..Len(c)
  <2>1. Len(c) # 0
    <3>1. PerSet \in Nat
      BY SetsAssumption
    <3> QED BY <1>2, <3>1
  <2> QED BY <1>3, <2>1
<1>5. /\ Len(chain') = Len(c)
      /\ \A p \in 1..Len(c) : chain'[p].id = c[p].id /\ c[p].bits \subseteq chain'[p].bits
  <2>1. CASE Marked(c, i)
    BY <1>1, <2>1 DEF MarkMember
  <2>2. CASE ~Marked(c, i)
    <3>1. chain' = Used(c, 1, i)
      BY <1>1, <2>2 DEF MarkMember, Used
    <3>2. /\ Len(chain') = Len(c) /\ chain'[1] = SetUsed(c[1], i)
          /\ \A q \in 1..Len(c) : q # 1 => chain'[q] = c[q]
      BY <1>2, <1>4, <3>1, OneUsed
    <3>3. SetUsed(c[1], i).id = c[1].id /\ c[1].bits \subseteq SetUsed(c[1], i).bits
      <4>1. c[1] \in Blocks
        BY <1>3, <1>4
      <4> QED BY <4>1 DEF SetUsed, Blocks
    <3> QED BY <3>2, <3>3
  <2> QED BY <2>1, <2>2
<1>6. /\ Len(chain) + 0 <= Len(chain') /\ 0 \in Nat
      /\ \A p \in 1..Len(chain) : chain'[p + 0].id = chain[p].id
      /\ Len(chain) = 1 => chain[1].bits \subseteq chain'[1].bits
  BY <1>1, <1>2, <1>3, <1>5
<1> QED BY <1>1, <1>6, GrowsOnWay

\* A unit is taken back: ForEachSetMember promises nothing after it.
LEMMA ForgetOnWay ==
  ASSUME Inv, WalkInv, UNCHANGED client, NEW u \in held, Forget(u), Len(chain') = Len(chain),
         \A p \in 1..Len(chain) : chain'[p].id = chain[p].id
  PROVE  WalkInv'
<1> SUFFICES ASSUME Meets' PROVE OnWay(chain', walk')
  BY DEF WalkInv
<1>1. Walking
  <2>1. ASSUME ~Walking PROVE FALSE
    BY <2>1 DEF Forget, Walking, Meets
  <2> QED BY <2>1
<1>2. walk' = [walk EXCEPT !.due = @ \ {u}, !.deleted = (walk.kind = "each")]
  BY <1>1 DEF Forget
<1>3. /\ walk'.due = walk.due \ {u} /\ walk'.kind = walk.kind /\ walk'.block = walk.block
      /\ walk'.n = walk.n /\ walk'.calling = walk.calling /\ walk'.deleted = (walk.kind = "each")
  BY <1>2 DEF Inv, Walks
<1>4. walk.kind = "all" /\ walk'.kind = "all" /\ Meets
  BY <1>3 DEF Meets, WellUsed
<1>5. OnWay(chain, walk)
  BY <1>4 DEF WalkInv
<1> QED BY <1>3, <1>4, <1>5 DEF OnWay

LEMMA DeleteOnWay ==
  ASSUME Inv, WalkInv, NEW u \in held, DeleteFromSet(u)
  PROVE  WalkInv'
<1> DEFINE p == Position(u[1])
<1>1. IsChain(chain) /\ UNCHANGED client /\ Forget(u) /\ chain' = Cleared(chain, p, u[2])
  BY DEF Inv, DeleteFromSet, Cleared
<1>2. u[1] \in 1..Len(chain) /\ u[2] \in Places
  BY DEF Inv
<1>3. p \in 1..Len(chain)
  BY <1>2, PositionOf
<1> HIDE DEF p
<1>4. /\ Len(chain') = Len(chain) /\ chain'[p] = ClearUsed(chain[p], u[2])
      /\ \A q \in 1..Len(chain) : q # p => chain'[q] = chain[q]
  BY <1>1, <1>2, <1>3, OneCleared
<1>5. ClearUsed(chain[p], u[2]).id = chain[p].id
  BY <1>1, <1>2, <1>3, ChainParts, ClearUsedOf
<1>6. \A q \in 1..Len(chain) : chain'[q].id = chain[q].id
  BY <1>4, <1>5
<1> QED BY <1>1, <1>4, <1>6, ForgetOnWay

LEMMA DeleteMemberOnWay ==
  ASSUME Inv, WalkInv, NEW u \in held, DeleteSetMember(u)
  PROVE  WalkInv'
<1> DEFINE p == CountedBlock(Index(u))
           n == Index(u) % PerSet
<1>1. /\ IsChain(chain) /\ Len(chain) \in Nat /\ DOMAIN chain = 1..Len(chain)
      /\ UNCHANGED client /\ Forget(u)
      /\ chain' = IF p \in DOMAIN chain /\ n \in chain[p].bits THEN Cleared(chain, p, n) ELSE chain
  BY ChainParts DEF Inv, DeleteSetMember, Cleared
<1> HIDE DEF p, n
<1>2. CASE p \in 1..Len(chain) /\ n \in chain[p].bits
  <2>1. chain[p] \in Blocks /\ n \in Places
    <3>1. chain[p] \in Blocks /\ chain[p].bits \in SUBSET Places
      BY <1>1, <1>2, ChainParts
    <3> QED BY <1>2, <3>1
  <2>2. chain' = Cleared(chain, p, n)
    BY <1>1, <1>2
  <2>3. /\ Len(chain') = Len(chain) /\ chain'[p] = ClearUsed(chain[p], n)
        /\ \A q \in 1..Len(chain) : q # p => chain'[q] = chain[q]
    BY <1>1, <1>2, <2>1, <2>2, OneCleared
  <2>4. ClearUsed(chain[p], n).id = chain[p].id
    BY <2>1, ClearUsedOf
  <2>5. \A q \in 1..Len(chain) : chain'[q].id = chain[q].id
    BY <2>3, <2>4
  <2> QED BY <1>1, <2>3, <2>5, ForgetOnWay
<1>3. CASE ~(p \in 1..Len(chain) /\ n \in chain[p].bits)
  <2>1. chain' = chain
    BY <1>1, <1>3
  <2> QED BY <1>1, <2>1, ForgetOnWay
<1> QED BY <1>2, <1>3

\* A walk goes on: what it passes is not due, as bits are those of what is held.
LEMMA StepOnWay ==
  ASSUME Inv, WalkInv, \/ \E kind \in {"all", "each"} : StartWalk(kind)
                       \/ WalkCalls \/ WalkGoesOn \/ WalkStops \/ WalkSkips \/ WalkNext \/ WalkEnds
  PROVE  WalkInv'
<1> SUFFICES ASSUME Meets' PROVE OnWay(chain, walk')
  <2>1. UNCHANGED chain
    BY DEF StartWalk, WalkCalls, WalkGoesOn, WalkStops, WalkSkips, WalkNext, WalkEnds
  <2> QED BY <2>1 DEF WalkInv
<1>0. /\ IsChain(chain) /\ Len(chain) \in Nat /\ DOMAIN chain = 1..Len(chain)
      /\ UNCHANGED <<client, chain, held>>
      /\ \A p \in 1..Len(chain) : chain[p].id \in 1..Len(chain) /\ chain[p] \in Blocks
      /\ \A p, q \in 1..Len(chain) : chain[p].id = chain[q].id => p = q
  BY ChainParts DEF Inv, StartWalk, WalkCalls, WalkGoesOn, WalkStops, WalkSkips, WalkNext, WalkEnds
<1>1. /\ walk \in Walks /\ walk.block \in 0..Len(chain) /\ walk.due \subseteq held
      /\ walk.n \in 0..PerSet /\ walk.nFound \in Nat /\ walk.total \in Nat /\ PerSet \in Nat
      /\ walk.calling \in BOOLEAN /\ walk.n \in Nat /\ NoBlock = 0
  BY SetsAssumption DEF Inv, Walks, NoBlock
<1>held. \A u \in held : u = <<u[1], u[2]>> /\ u[1] \in 1..Len(chain) /\ u[2] \in Places /\ u[2] \in Nat
                         /\ u[2] < PerSet
  BY <1>1 DEF Inv, Places
<1>2. ASSUME NEW kind \in {"all", "each"}, StartWalk(kind) PROVE OnWay(chain, walk')
  <2>1. walk' = [kind |-> kind, block |-> chain[1].id, n |-> 0, nFound |-> 0, total |-> 0,
                 calling |-> FALSE, due |-> held, deleted |-> FALSE]
    BY <1>2 DEF StartWalk, NoWalk
  <2>2. 1 \in 1..Len(chain) /\ chain[1].id \in 1..Len(chain)
    <3>1. Len(chain) # 0
      BY <1>0, <1>2 DEF StartWalk, Inv, IsChain
    <3> QED BY <1>0, <3>1
  <2>3. ASSUME NEW u \in walk'.due, NEW p \in 1..Len(chain), NEW q \in 1..Len(chain),
               chain[p].id = walk'.block, chain[q].id = u[1]
        PROVE  p < q \/ (p = q /\ (walk'.n < u[2] \/ (walk'.n = u[2] /\ ~walk'.calling)))
    <3>1. p = 1
      BY <1>0, <2>1, <2>2, <2>3
    <3>2. u[2] \in Nat
      BY <1>held, <2>1
    <3> QED BY <1>0, <2>1, <3>1, <3>2
  <2>4. walk'.total = 0 /\ walk'.nFound <= Cardinality(Passed(chain[1], walk'))
    BY <1>0, <2>1, <2>2, PassedCounted
  <2>5. walk'.block # NoBlock
    BY <1>0, <1>1, <2>1, <2>2
  <2> QED BY <2>3, <2>4, <2>5 DEF OnWay
<1>3. CASE WalkStops \/ WalkEnds
  BY <1>3 DEF WalkStops, WalkEnds, NoWalk, OnWay
<1> DEFINE On == WalkCalls \/ WalkGoesOn \/ WalkSkips \/ WalkNext
<1>4. ASSUME On
      PROVE  /\ Meets /\ OnWay(chain, walk) /\ InStep(chain, held) /\ walk.block \in 1..Len(chain)
             /\ walk.kind \in {"all", "each"} /\ walk'.kind = walk.kind
             /\ walk.kind = "each" => Len(chain) = 1
  <2>1. walk.block # NoBlock
    BY <1>4 DEF Inv, WalkCalls, WalkGoesOn, WalkSkips, WalkNext, AtBit
  <2>2. walk'.kind = walk.kind /\ walk'.deleted = walk.deleted
    BY <1>1, <1>4 DEF WalkCalls, WalkGoesOn, WalkSkips, WalkNext, Walks
  <2>3. Meets
    BY <1>0, <2>2 DEF Meets, WellUsed
  <2>4. WellUsed
    BY <2>3 DEF Meets, WellUsed
  <2>5. walk.kind = "each" => Len(chain) = 1
    BY <1>0, <1>1, <2>1, <2>3 DEF Meets
  <2> QED BY <1>0, <1>1, <2>1, <2>2, <2>3, <2>4, <2>5 DEF Meets, WalkInv, Inv
<1>5. CASE WalkCalls
  <2>1. /\ walk' = [walk EXCEPT !.calling = TRUE, !.due = @ \ Met, !.nFound = @ + 1]
        /\ ~walk.calling /\ walk.n \in Here.bits /\ walk.block # NoBlock
    BY <1>5 DEF WalkCalls, AtBit
  <2>2. /\ walk'.block = walk.block /\ walk'.n = walk.n /\ walk'.calling /\ walk'.total = walk.total
        /\ walk'.nFound = walk.nFound + 1 /\ walk'.due = walk.due \ Met
    BY <1>1, <2>1 DEF Walks
  <2>3. ASSUME NEW u \in walk'.due, u[1] = walk.block PROVE u[2] # walk.n
    <3>1. u \in walk.due /\ u \in held /\ u \notin Met
      BY <1>1, <2>2
    <3>2. CASE walk.kind = "all"
      <4>1. Met = {<<walk.block, walk.n>>}
        BY <3>2 DEF Met
      <4>2. u = <<u[1], u[2]>>
        BY <1>held, <3>1
      <4> QED BY <2>3, <3>1, <4>1, <4>2
    <3>3. CASE walk.kind = "each"
      <4>1. walk.total = 0 /\ Len(chain) <= 1
        <5>1. OnWay(chain, walk)
          BY <1>4, <1>5
        <5>2. walk.total = 0
          BY <2>1, <3>3, <5>1 DEF OnWay
        <5>3. Len(chain) = 1
          BY <1>4, <1>5, <3>3
        <5> QED BY <5>2, <5>3
      <4>2. Index(u) = u[2]
        BY <2>1, <3>1, <4>1, InOneBlock
      <4>3. Index(u) # walk.total + walk.n
        BY <3>1, <3>3 DEF Met
      <4> QED BY <1>1, <4>1, <4>2, <4>3
    <3> QED BY <1>4, <1>5, <3>2, <3>3
  <2>4. ASSUME NEW u \in walk'.due, NEW p \in 1..Len(chain), NEW q \in 1..Len(chain),
               chain[p].id = walk'.block, chain[q].id = u[1]
        PROVE  p < q \/ (p = q /\ (walk'.n < u[2] \/ (walk'.n = u[2] /\ ~walk'.calling)))
    <3>1. p < q \/ (p = q /\ (walk.n < u[2] \/ (walk.n = u[2] /\ ~walk.calling)))
      BY <1>4, <1>5, <2>2, <2>4 DEF OnWay
    <3>2. p = q => u[2] # walk.n
      BY <2>2, <2>3, <2>4
    <3> QED BY <2>2, <3>1, <3>2
  <2>5. ASSUME walk.kind = "each"
        PROVE  walk'.total = 0 /\ walk'.nFound <= Cardinality(Passed(chain[1], walk'))
    <3>1. walk.total = 0 /\ Len(chain) = 1 /\ walk.nFound <= Cardinality(Passed(chain[1], walk))
      BY <1>4, <1>5, <2>1, <2>5 DEF OnWay
    <3>2. Here = chain[1] /\ chain[1] \in Blocks
      BY <1>0, <2>1, <3>1, InOneBlock
    <3>3. /\ Passed(chain[1], walk') = Passed(chain[1], walk) \cup {walk.n}
          /\ walk.n \notin Passed(chain[1], walk)
      BY <1>1, <2>1, <2>2, <3>2 DEF Passed
    <3>4. Cardinality(Passed(chain[1], walk) \cup {walk.n}) = Cardinality(Passed(chain[1], walk)) + 1
      BY <3>2, <3>3, PassedCounted, FS_AddElement
    <3>5. Cardinality(Passed(chain[1], walk)) \in Nat
      BY <3>2, PassedCounted
    <3> QED BY <1>1, <2>2, <3>1, <3>3, <3>4, <3>5
  <2> QED BY <1>4, <1>5, <2>1, <2>2, <2>4, <2>5 DEF OnWay
<1>6. CASE WalkGoesOn \/ WalkSkips
  <2>1. /\ walk.block # NoBlock
        /\ walk.calling \/ (~walk.calling /\ walk.n \notin Here.bits /\ walk.n < PerSet)
    BY <1>6 DEF WalkGoesOn, WalkSkips, AtBit, Inv
  <2>2. /\ walk'.block = walk.block /\ walk'.n = walk.n + 1 /\ ~walk'.calling
        /\ walk'.total = walk.total /\ walk'.nFound = walk.nFound /\ walk'.due = walk.due
    <3>1. CASE WalkGoesOn
      BY <1>1, <3>1 DEF WalkGoesOn, Walks
    <3>2. CASE WalkSkips
      BY <1>1, <3>2 DEF WalkSkips, AtBit, Walks
    <3> QED BY <1>6, <3>1, <3>2
  <2>3. ASSUME NEW u \in walk.due, u[1] = walk.block, ~walk.calling PROVE u[2] # walk.n
    <3>1. Position(walk.block) \in 1..Len(chain) /\ Here.id = walk.block
      BY <1>4, <1>6, PositionOf DEF Here
    <3>2. walk.n \in Places /\ walk.n \notin Here.bits
      BY <1>1, <2>1, <2>3 DEF Places
    <3>3. <<Here.id, walk.n>> \notin held
      BY <1>4, <1>6, <3>1, <3>2 DEF InStep, Here
    <3>4. u = <<u[1], u[2]>> /\ u \in held
      BY <1>1, <1>held
    <3> QED BY <2>3, <3>1, <3>3, <3>4
  <2>4. ASSUME NEW u \in walk'.due, NEW p \in 1..Len(chain), NEW q \in 1..Len(chain),
               chain[p].id = walk'.block, chain[q].id = u[1]
        PROVE  p < q \/ (p = q /\ (walk'.n < u[2] \/ (walk'.n = u[2] /\ ~walk'.calling)))
    <3>1. p < q \/ (p = q /\ (walk.n < u[2] \/ (walk.n = u[2] /\ ~walk.calling)))
      BY <1>4, <1>6, <2>2, <2>4 DEF OnWay
    <3>2. p = q /\ ~walk.calling => u[2] # walk.n
      BY <2>2, <2>3, <2>4
    <3>3. u[2] \in Nat
      BY <1>1, <1>held, <2>2
    <3> QED BY <1>1, <2>2, <3>1, <3>2, <3>3
  <2>5. ASSUME walk.kind = "each"
        PROVE  walk'.total = 0 /\ walk'.nFound <= Cardinality(Passed(chain[1], walk'))
    <3>1. walk.total = 0 /\ Len(chain) = 1 /\ walk.nFound <= Cardinality(Passed(chain[1], walk))
      BY <1>4, <1>6, <2>1, <2>5 DEF OnWay
    <3>2. Here = chain[1] /\ chain[1].bits \in SUBSET Nat
      <4>1. Here = chain[1] /\ chain[1] \in Blocks
        BY <1>0, <2>1, <3>1, InOneBlock
      <4> QED BY <1>1, <4>1, BlockParts DEF Places
    <3>3. Passed(chain[1], walk') = Passed(chain[1], walk)
      <4>1. ASSUME NEW m \in chain[1].bits
            PROVE  (m < walk'.n \/ (m = walk'.n /\ walk'.calling))
                     <=> (m < walk.n \/ (m = walk.n /\ walk.calling))
        <5>1. m \in Nat /\ (~walk.calling => m # walk.n)
          BY <2>1, <3>2
        <5> QED BY <1>1, <2>2, <5>1
      <4> QED BY <4>1 DEF Passed
    <3> QED BY <2>2, <3>1, <3>3
  <2> QED BY <1>4, <1>6, <2>1, <2>2, <2>4, <2>5 DEF OnWay
<1>7. CASE WalkNext
  <2> DEFINE x == Position(walk.block)
             b == IF x < Len(chain) THEN chain[x + 1].id ELSE NoBlock
             t == IF walk.kind = "each" THEN walk.total + walk.n ELSE walk.total
  <2>1. /\ walk' = [walk EXCEPT !.block = b, !.total = t, !.n = 0, !.nFound = 0]
        /\ ~walk.calling /\ ~AtBit /\ Walking /\ walk.block # NoBlock
    BY <1>7 DEF WalkNext
  <2>2. x \in 1..Len(chain) /\ chain[x].id = walk.block /\ Here = chain[x]
    BY <1>4, <1>7, PositionOf DEF Here
  <2> HIDE DEF x, t
  <2>3. walk'.block = b /\ walk'.due = walk.due /\ walk'.n = 0 /\ ~walk'.calling
    BY <1>1, <2>1 DEF Walks
  <2>4. ASSUME NEW u \in walk.due, NEW q \in 1..Len(chain), chain[q].id = u[1] PROVE x < q
    <3>2. u \in held /\ u[2] \in Nat /\ u[2] < PerSet /\ u[2] \in Places /\ u = <<u[1], u[2]>>
      BY <1>1, <1>held
    <3>1. x < q \/ (x = q /\ walk.n <= u[2])
      <4>1. x < q \/ (x = q /\ (walk.n < u[2] \/ (walk.n = u[2] /\ ~walk.calling)))
        BY <1>4, <1>7, <2>2, <2>4, ZenonT(60) DEF OnWay
      <4> QED BY <1>1, <3>2, <4>1
    <3>3. CASE walk.kind = "all"
      <4>1. walk.n >= PerSet
        BY <1>1, <2>1, <3>3 DEF AtBit
      <4> QED BY <1>1, <3>1, <3>2, <4>1
    <3>4. CASE walk.kind = "each"
      <4>1. /\ Len(chain) = 1 /\ walk.nFound <= Cardinality(Passed(chain[1], walk))
            /\ Here = chain[1] /\ chain[1] \in Blocks /\ x = 1
        <5>1. Len(chain) = 1
          BY <1>4, <1>7, <3>4
        <5>2. walk.nFound <= Cardinality(Passed(chain[1], walk))
          BY <1>4, <1>7, <2>1, <3>4 DEF OnWay
        <5>3. x = 1 /\ chain[1] \in Blocks
          BY <1>0, <2>2, <5>1
        <5> QED BY <2>2, <5>1, <5>2, <5>3
      <4>2. chain[1].nUsed = Cardinality(chain[1].bits) /\ chain[1].bits \in SUBSET Places
        BY <1>4, <1>7, <4>1, BlockParts DEF InStep
      <4>3. Signed(Here.nUsed) = Cardinality(chain[1].bits) /\ Cardinality(chain[1].bits) \in Nat
        <5>1. Cardinality(chain[1].bits) \in 0..PerSet
          BY <4>2, PlacesCounted
        <5>2. PerSet < CountMod \div 2 /\ CountMod \in Nat
          BY SetsAssumption
        <5>3. CountMod \div 2 \in Int
          BY <5>2
        <5> QED BY <1>1, <4>1, <4>2, <5>1, <5>2, <5>3 DEF Signed
      <4>4. ASSUME walk.n < PerSet PROVE u[2] < walk.n
        <5>1. Signed(Here.nUsed) <= walk.nFound
          BY <1>1, <2>1, <4>3, <4>4 DEF AtBit
        <5>2. Cardinality(Passed(chain[1], walk)) \in Nat
          BY <4>1, PassedCounted
        <5>3. Cardinality(chain[1].bits) <= Cardinality(Passed(chain[1], walk))
          BY <1>1, <4>1, <4>3, <5>1, <5>2
        <5>4. Passed(chain[1], walk) \subseteq chain[1].bits /\ IsFiniteSet(chain[1].bits)
          BY <4>2, PlacesCounted DEF Passed
        <5>5. Passed(chain[1], walk) = chain[1].bits
          <6>1. Cardinality(Passed(chain[1], walk)) <= Cardinality(chain[1].bits)
            BY <5>4, FS_Subset
          <6>2. Cardinality(Passed(chain[1], walk)) = Cardinality(chain[1].bits)
            BY <4>3, <5>2, <5>3, <6>1
          <6> QED BY <5>4, <6>2, FS_Subset
        <5>6. u[2] \in chain[1].bits
          <6>1. chain[1].id = 1 /\ u[1] = 1 /\ 1 \in 1..Len(chain)
            BY <1>0, <1>held, <3>2, <4>1
          <6> QED BY <1>4, <1>7, <3>2, <6>1 DEF InStep
        <5> QED BY <2>1, <5>5, <5>6 DEF Passed
      <4> QED BY <1>1, <3>1, <3>2, <4>4
    <3> QED BY <1>4, <1>7, <3>3, <3>4
  <2>5. ASSUME NEW u \in walk.due PROVE \E q \in 1..Len(chain) : chain[q].id = u[1] /\ x < q
    <3>1. u[1] \in 1..Len(chain)
      BY <1>1, <1>held
    <3>2. PICK q \in 1..Len(chain) : chain[q].id = u[1]
      BY <1>0, <3>1, ChainParts
    <3> QED BY <2>4, <3>2
  <2>6. CASE x < Len(chain)
    <3>1. x + 1 \in 1..Len(chain) /\ b = chain[x + 1].id /\ b # NoBlock
      <4>1. x + 1 \in 1..Len(chain)
        BY <1>0, <2>2, <2>6
      <4>2. chain[x + 1].id # NoBlock
        BY <1>0, <1>1, <4>1
      <4> QED BY <2>6, <4>1, <4>2
    <3>2. walk.kind # "each"
      <4>1. ASSUME Len(chain) = 1 PROVE FALSE
        BY <2>2, <2>6, <4>1
      <4> QED BY <1>4, <1>7, <4>1
    <3>3. ASSUME NEW u \in walk'.due, NEW p \in 1..Len(chain), NEW q \in 1..Len(chain),
                 chain[p].id = walk'.block, chain[q].id = u[1]
          PROVE  p < q \/ (p = q /\ (walk'.n < u[2] \/ (walk'.n = u[2] /\ ~walk'.calling)))
      <4>1. p = x + 1
        BY <1>0, <2>3, <3>1, <3>3
      <4>2. x < q
        BY <2>3, <2>4, <3>3
      <4>3. u[2] \in Nat
        BY <1>1, <1>held, <2>3
      <4> QED BY <1>0, <2>2, <2>3, <4>1, <4>2, <4>3
    <3> QED BY <1>4, <1>7, <2>3, <3>1, <3>2, <3>3 DEF OnWay
  <2>7. CASE ~(x < Len(chain))
    <3>1. walk.due = {}
      BY <1>0, <2>2, <2>5, <2>7
    <3>2. b = NoBlock
      BY <2>7
    <3> QED BY <2>3, <3>1, <3>2 DEF OnWay
  <2> QED BY <2>6, <2>7
<1> QED BY <1>2, <1>3, <1>5, <1>6, <1>7

LEMMA WalkInvNext == Inv /\ Inv' /\ WalkInv /\ [Next]_vars => WalkInv'
<1> SUFFICES ASSUME Inv, Inv', WalkInv, [Next]_vars PROVE WalkInv'
  OBVIOUS
<1>1. CASE UNCHANGED vars
  BY <1>1 DEF vars, WalkInv, Meets, WellUsed, OnWay
<1>2. ASSUME NEW u \in held, DeleteFromSet(u) \/ DeleteSetMember(u) PROVE WalkInv'
  BY <1>2, DeleteOnWay, DeleteMemberOnWay
<1>3. ASSUME NEW i \in Indexes[client], GetUsedSetMember(i) \/ GetSetMember(i) PROVE WalkInv'
  BY <1>3, GetUsedOnWay, GetMemberOnWay
<1>4. CASE DeleteSet
  BY <1>4 DEF DeleteSet, Walking, WalkInv, Meets
<1> QED BY <1>1, <1>2, <1>3, <1>4, GetOnWay, StepOnWay DEF Next

\* A walk over all units meets each that was held from its beginning to its end, whatever
\* its callback takes, deletes and adds to the ends of the chain, and although
\* ForEachSetMember stops by a count that changes meanwhile: it in one block from which
\* nothing is deleted, ForAllInSet in any set that is used by units.
THEOREM WalkMeetsAllAlways == Spec => []WalkMeetsAll
<1>1. Init => WalkInv
  BY DEF Init, WalkInv, Meets, NoWalk
<1>2. WalkInv => WalkMeetsAll
  BY DEF WalkInv, Meets, OnWay, WalkMeetsAll, Over
<1> QED BY <1>1, <1>2, WalkInvNext, InvAlways, PTL DEF Spec
=============================================================================
