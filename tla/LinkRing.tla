------------------------------ MODULE LinkRing ------------------------------
(***************************************************************************)
(* The ring that a link queue and a data queue of typelib/typecode.c keep  *)
(* their members in: Cnt places of which those from Bottom to before Top,  *)
(* round the end, are used, and one never is.  A full ring is copied to a  *)
(* larger one.                                                             *)
(*                                                                         *)
(* A place that is not used keeps what it had; a new one has junk.         *)
(***************************************************************************)
EXTENDS Integers, Sequences

CONSTANTS
  Links,    \* what is kept in a queue
  NoLink,   \* no link, and the junk of a place that was never used
  ExpandBy  \* how many places are added to a full ring

ASSUME RingAssumption == ExpandBy \in Nat \ {0} /\ NoLink \notin Links

Ring(c, t, b, n) == [cnt |-> c, top |-> t, bottom |-> b, node |-> n]
Created(n) == Ring(n, 0, 0, [i \in 0..(n - 1) |-> NoLink])

\* The places after and before place i.
\* (Mutation) The end of the ring is not looked for.
AfterUnwrapped(r, i) == i + 1
After(r, i)  == IF i + 1 >= r.cnt THEN i + 1 - r.cnt ELSE i + 1
Before(r, i) == IF i = 0 THEN r.cnt - 1 ELSE i - 1

Empty(r)  == r.bottom = r.top
Full(r)   == After(r, r.top) = r.bottom
Length(r) == IF r.top < r.bottom THEN r.top - r.bottom + r.cnt ELSE r.top - r.bottom

\* The part up to the end of the ring is copied first, then the part from its origin.
FirstPart(r) == IF r.bottom > r.top THEN r.cnt - r.bottom ELSE r.top - r.bottom
\* (Mutation) The part from the origin is copied where it was.
CopiedInPlace(r, i) == IF i < FirstPart(r) THEN r.node[r.bottom + i] ELSE r.node[i]
Copied(r, i) == IF i < FirstPart(r) THEN r.node[r.bottom + i] ELSE r.node[i - FirstPart(r)]
Expanded(r) ==
  Ring(r.cnt + ExpandBy, Length(r), 0,
       [i \in 0..(r.cnt + ExpandBy - 1) |-> IF i < Length(r) THEN Copied(r, i) ELSE NoLink])

\* A ring that is not full takes a link at its top, or at its bottom.
AtTop(r, l)    == Ring(r.cnt, After(r, r.top), r.bottom, [r.node EXCEPT ![r.top] = l])
AtBottom(r, l) == LET i == Before(r, r.bottom)
                  IN  Ring(r.cnt, r.top, i, [r.node EXCEPT ![i] = l])

\* A ring that is not empty loses the link at its bottom, or at its top.
WithoutBottom(r) == Ring(r.cnt, r.top, After(r, r.bottom), r.node)
WithoutTop(r)    == Ring(r.cnt, Before(r, r.top), r.bottom, r.node)
Emptied(r)       == Ring(r.cnt, 0, 0, r.node)

\* The place of the i-th link from the bottom, counted from 0.
At(r, i) == IF r.bottom + i >= r.cnt THEN r.bottom + i - r.cnt ELSE r.bottom + i

\* The i-th link from the bottom, or the -i-th from the top, if there are as many.
Peeked(r, i) ==
  IF i >= 0
  THEN IF i < Length(r) THEN r.node[At(r, i)] ELSE NoLink
  ELSE IF -i <= Length(r) THEN r.node[At(r, Length(r) + i)] ELSE NoLink
-----------------------------------------------------------------------------
\* A ring as the functions above leave it, and the links in it from bottom to top.
HasPlaces(r) == r.cnt \in Nat \ {0, 1} /\ r.top \in 0..(r.cnt - 1) /\ r.bottom \in 0..(r.cnt - 1)
IsRing(r) ==
  /\ HasPlaces(r)
  /\ r.node \in [0..(r.cnt - 1) -> Links \cup {NoLink}]
  /\ \A i \in 0..(Length(r) - 1) : r.node[At(r, i)] \in Links

Contents(r) == [i \in 1..Length(r) |-> r.node[At(r, i - 1)]]
=============================================================================
