-------------------------------- MODULE Sets --------------------------------
(***************************************************************************)
(* Sets of units (typelib/sets.c): units of one type, allocated a block at *)
(* a time, PerSet to a block, and given out one by one, by the first free  *)
(* bit of a block or by an index.  GetFromSet puts a new block at the head *)
(* of the chain, GetSetMember and GetUsedSetMember put theirs at the tail; *)
(* the bias of a block is the index of its first unit.                     *)
(*                                                                         *)
(* The caller is one thread, or threads that share a lock of their own     *)
(* around each call: the functions have none.  A walk over the set calls   *)
(* back for each unit, and the callback calls the other functions.         *)
(*                                                                         *)
(* PerSet is a multiple of 32, as it is for the sets of timers, of names,  *)
(* of addresses and of the parsers: a block whose words are all ones is    *)
(* full.  Left out: blocks that come from a set of blocks                  *)
(* (GetFromSetPool), and the copies to an array.                           *)
(***************************************************************************)
EXTENDS Integers, Sequences, FiniteSets

CONSTANTS
  PerSet,     \* units of a block (MAX<name>SPERSET)
  CountMod,   \* the width of nUsed (2^32 in the code)
  Indexes,    \* [client] indexes that are asked for
  Clients,    \* what the caller may call, one of: "units", "indexed"
  MaxBlocks   \* [client] bound: blocks of a set

ASSUME SetsAssumption ==
  /\ PerSet \in Nat \ {0}
  /\ CountMod \in Nat /\ PerSet < CountMod \div 2
  /\ Clients \subseteq {"units", "indexed"}
  /\ MaxBlocks \in [Clients -> Nat]
  /\ Indexes \in [Clients -> SUBSET Nat]
  /\ \A c \in Clients : \A i \in Indexes[c] : i < PerSet * MaxBlocks[c]

VARIABLES
  client, \* "units": takes and deletes units and walks; "indexed": makes all the calls
  chain,  \* the blocks in the order of next: [id, bias, bits, nUsed]
  held,   \* the units the caller has got and not deleted; a unit is <<id of its block, n>>
  walk    \* the walk that is on, if any

vars == <<client, chain, held, walk>>

Places == 0..(PerSet - 1)
Units  == (1..MaxBlocks[client]) \X Places
Counts == 0..(CountMod - 1)
NoBlock == 0

\* kind, ForAllInSet or ForEachSetMember; block and n, where it is; nFound and total, as
\* ForEachSetMember counts; calling, that the callback has been called; due, what was held
\* when it began and has been since, and it has not called back for; deleted, that
\* ForEachSetMember's callback has deleted units.
NoWalk == [kind |-> "none", block |-> NoBlock, n |-> 0, nFound |-> 0, total |-> 0,
           calling |-> FALSE, due |-> {}, deleted |-> FALSE]

Init ==
  /\ client \in Clients
  /\ chain = <<>> /\ held = {} /\ walk = NoWalk

Block(id, bias, bits) ==
  [id |-> id, bias |-> bias, bits |-> bits, nUsed |-> Cardinality(bits)]

\* Macros SetUsed and ClearUsed; a bit beyond the units of the block is in memory that is
\* never looked at for bits.
SetUsed(b, n)   == [b EXCEPT !.bits = @ \cup ({n} \cap Places), !.nUsed = (@ + 1) % CountMod]
\* (Mutation) The count is left.
ClearUsedOnly(b, n) == [b EXCEPT !.bits = @ \ {n}]
ClearUsed(b, n) == [b EXCEPT !.bits = @ \ {n}, !.nUsed = (@ - 1) % CountMod]

IsFull(b)  == b.nUsed = PerSet
HasFree(b) == b.bits # Places

Biases(c)  == {c[p].bias : p \in DOMAIN c}
MaxBias(c) == CHOOSE m \in Biases(c) : \A x \in Biases(c) : x <= m
\* (Mutation) The largest bias is not looked for.
NextBiasOfLast(c) == IF c = <<>> THEN 0 ELSE c[Len(c)].bias + PerSet
NextBias(c) == IF c = <<>> THEN 0 ELSE MaxBias(c) + PerSet

Least(S) == CHOOSE x \in S : \A y \in S : x <= y

Covers(b, i) == b.bias <= i /\ i < b.bias + PerSet
Covering(c, i) == {p \in DOMAIN c : Covers(c[p], i)}

Position(id) == CHOOSE p \in DOMAIN chain : chain[p].id = id
Index(u)     == chain[Position(u[1])].bias + u[2]
Walking      == walk.kind # "none"
\* The caller's own calls are made by it, or by the callback of its walk.
Calls        == Walking => walk.calling
-----------------------------------------------------------------------------
(***************************************************************************)
(* Units                                                                   *)
(***************************************************************************)
\* Blocks that are not thought to be full and have a free bit.
Open(c) == {p \in DOMAIN c : ~IsFull(c[p]) /\ HasFree(c[p])}

\* A block that is found full on the way has its count corrected.
Corrected(c, last) ==
  [p \in DOMAIN c |-> IF p <= last /\ ~HasFree(c[p]) THEN [c[p] EXCEPT !.nUsed = PerSet] ELSE c[p]]

\* Where GetFromSet finds a unit: the block's position, and the chain with that unit used.
TakenAt(c, p, n) ==
  [Corrected(c, p - 1) EXCEPT ![p] = SetUsed(@, n)]
TakenAnew(c) ==
  <<Block(Len(c) + 1, NextBias(c), {0})>> \o Corrected(c, Len(c))

GetFromSet ==
  /\ Calls
  /\ IF Open(chain) # {}
     THEN LET p == Least(Open(chain))
              n == Least(Places \ chain[p].bits)
          IN chain' = TakenAt(chain, p, n) /\ held' = held \cup {<<chain[p].id, n>>}
     ELSE /\ Len(chain) < MaxBlocks[client]
          /\ chain' = TakenAnew(chain) /\ held' = held \cup {<<Len(chain) + 1, 0>>}
  /\ UNCHANGED <<client, walk>>

\* A walk that is on need not meet a unit that is deleted.
Forget(u) ==
  /\ held' = held \ {u}
  /\ walk' = IF Walking THEN [walk EXCEPT !.due = @ \ {u}, !.deleted = walk.kind = "each"]
                      ELSE walk

DeleteFromSet(u) ==
  /\ Calls /\ u \in held
  /\ chain' = [chain EXCEPT ![Position(u[1])] = ClearUsed(@, u[2])]
  /\ Forget(u)
  /\ UNCHANGED client

\* The whole set, but not under a walk.
DeleteSet ==
  /\ chain # <<>> /\ ~Walking
  /\ chain' = <<>> /\ held' = {}
  /\ UNCHANGED <<client, walk>>
-----------------------------------------------------------------------------
(***************************************************************************)
(* Indexes                                                                 *)
(***************************************************************************)
\* The chain with blocks at its tail until one of them covers i.
\* (Mutation) A block is put there before it is looked whether the last has the index.
ReachingPast(c, i) ==
  IF Covering(c, i) # {} THEN c
  ELSE c \o [k \in 1..((i - NextBias(c)) \div PerSet + 2) |->
               Block(Len(c) + k, NextBias(c) + (k - 1) * PerSet, {})]
Reaching(c, i) ==
  IF Covering(c, i) # {} THEN c
  ELSE c \o [k \in 1..((i - NextBias(c)) \div PerSet + 1) |->
               Block(Len(c) + k, NextBias(c) + (k - 1) * PerSet, {})]

\* The block that GetSetMemberExx stops at.
Member(c, i) == LET p == Least(Covering(c, i)) IN <<c[p].id, i - c[p].bias>>
Marked(c, i) == LET p == Least(Covering(c, i)) IN (i - c[p].bias) \in c[p].bits

\* The set is extended for the unit, which is returned only if it is used.
GetUsedSetMember(i) ==
  /\ Calls /\ Covering(chain, i) = {}
  /\ chain' = Reaching(chain, i)
  /\ UNCHANGED <<client, held, walk>>

\* The bit is set in the block at the head of the chain, by the index in the whole set.
MarkMember(c, i) == IF Marked(c, i) THEN c ELSE [c EXCEPT ![1] = SetUsed(@, i)]

GetSetMember(i) ==
  /\ Calls /\ client = "indexed"
  /\ LET c == Reaching(chain, i)
     IN chain' = MarkMember(c, i) /\ held' = held \cup {Member(c, i)}
  /\ UNCHANGED <<client, walk>>

\* Blocks are counted in the order of the chain, whatever their biases.
CountedBlock(i) == i \div PerSet + 1

\* The caller means the unit u, which has index i.
DeleteSetMember(u) ==
  LET i == Index(u)
      p == CountedBlock(i)
      n == i % PerSet
  IN
  /\ Calls /\ client = "indexed" /\ u \in held
  /\ IF p \in DOMAIN chain /\ n \in chain[p].bits
     THEN chain' = [chain EXCEPT ![p] = ClearUsed(@, n)]
     ELSE UNCHANGED chain
  /\ Forget(u)
  /\ UNCHANGED client
-----------------------------------------------------------------------------
(***************************************************************************)
(* Walks                                                                   *)
(***************************************************************************)
StartWalk(kind) ==
  /\ ~Walking /\ chain # <<>>
  /\ walk' = [NoWalk EXCEPT !.kind = kind, !.block = chain[1].id, !.due = held]
  /\ UNCHANGED <<client, chain, held>>

Here == chain[Position(walk.block)]

Signed(x) == IF x < CountMod \div 2 THEN x ELSE x - CountMod

\* There is a bit to be looked at, and the count has not been reached.
\* (Mutation) Both walks stop at the count.
AtBitCounted ==
  /\ Walking /\ ~walk.calling /\ walk.block # NoBlock
  /\ walk.n < PerSet
  /\ walk.nFound < Signed(Here.nUsed)
AtBit ==
  /\ Walking /\ ~walk.calling /\ walk.block # NoBlock
  /\ walk.n < PerSet
  /\ walk.kind = "each" => walk.nFound < Signed(Here.nUsed)

\* What the callback is called for: the unit, or the unit that has the index it is given.
Met == IF walk.kind = "each" THEN {u \in held : Index(u) = walk.total + walk.n}
                             ELSE {<<walk.block, walk.n>>}

WalkCalls ==
  /\ AtBit /\ walk.n \in Here.bits
  /\ walk' = [walk EXCEPT !.calling = TRUE, !.due = @ \ Met,
                !.nFound = @ + 1]
  /\ UNCHANGED <<client, chain, held>>

\* The callback returns zero, or something else, which ends the walk.
WalkGoesOn ==
  /\ walk.calling
  /\ walk' = [walk EXCEPT !.calling = FALSE, !.n = @ + 1]
  /\ UNCHANGED <<client, chain, held>>

WalkStops ==
  /\ walk.calling
  /\ walk' = NoWalk
  /\ UNCHANGED <<client, chain, held>>

WalkSkips ==
  /\ AtBit /\ walk.n \notin Here.bits
  /\ walk' = [walk EXCEPT !.n = @ + 1]
  /\ UNCHANGED <<client, chain, held>>

\* The indexes of the next block go on from where the walk left this one.
WalkNext ==
  LET p == Position(walk.block) IN
  /\ Walking /\ ~walk.calling /\ walk.block # NoBlock /\ ~AtBit
  /\ walk' = [walk EXCEPT !.block = IF p < Len(chain) THEN chain[p + 1].id ELSE NoBlock,
                !.total = IF walk.kind = "each" THEN @ + walk.n ELSE @,
                !.n = 0, !.nFound = 0]
  /\ UNCHANGED <<client, chain, held>>

WalkEnds ==
  /\ Walking /\ walk.block = NoBlock
  /\ walk' = NoWalk
  /\ UNCHANGED <<client, chain, held>>

Next ==
  \/ GetFromSet
  \/ DeleteSet
  \/ \E u \in held : DeleteFromSet(u) \/ DeleteSetMember(u)
  \/ \E i \in Indexes[client] : GetUsedSetMember(i) \/ GetSetMember(i)
  \/ \E kind \in {"all", "each"} : StartWalk(kind)
  \/ WalkCalls \/ WalkGoesOn \/ WalkStops \/ WalkSkips \/ WalkNext \/ WalkEnds

Spec == Init /\ [][Next]_vars
-----------------------------------------------------------------------------
(***************************************************************************)
(* Properties                                                              *)
(***************************************************************************)
Blocks == [id : 1..MaxBlocks[client], bias : Nat, bits : SUBSET Places, nUsed : Counts]

Walks  == [kind : {"none", "all", "each"}, block : Nat, n : 0..PerSet, nFound : Nat, total : Nat,
           calling : BOOLEAN, due : SUBSET Units, deleted : BOOLEAN]

\* Every variable has the values its declaration in the code allows: the bits of a block
\* are those of its units, the set has no more blocks than the bound, and a walk is at a
\* unit of one of them or at the end of one.
TypeOK ==
  /\ client \in Clients
  /\ chain \in Seq(Blocks) /\ Len(chain) <= MaxBlocks[client]
  /\ held \subseteq Units
  /\ walk \in Walks
  /\ walk.block \in {NoBlock} \cup {chain[p].id : p \in DOMAIN chain}
  /\ walk.due \subseteq held

\* Each index is that of one unit, through all the blocks that GetFromSet has put at the
\* head and GetSetMember at the tail: what GetMemberIndex returns leads GetUsedSetMember
\* back to the same unit, and the search for an index ends.
IndexLeadsBack ==
  /\ \A i \in 0..(PerSet * Len(chain) - 1) : \E p \in DOMAIN chain : Covering(chain, i) = {p}
  /\ \A p, q \in DOMAIN chain : chain[p].id = chain[q].id => p = q

\* What is asked for by index is right while the set has one block.
WellUsed == client = "units" \/ Len(chain) <= 1

\* The units that have their bits are those the caller has, so that no unit is given to it
\* twice or lost, and the counts, by which blocks are passed over, are those of the bits.
UsedIsHeld ==
  WellUsed =>
    \A p \in DOMAIN chain :
      /\ chain[p].bits = {n \in Places : <<chain[p].id, n>> \in held}
      /\ chain[p].nUsed = Cardinality(chain[p].bits)

Over == Walking /\ walk.block = NoBlock

\* A walk that its callback has not ended has met each unit that was held all the while,
\* whatever the callback took and deleted; with ForEachSetMember, in a set of one block
\* from which the callback deletes nothing.
WalkMeetsAll ==
  /\ Over /\ walk.kind = "all" /\ WellUsed => walk.due = {}
  /\ Over /\ walk.kind = "each" /\ Len(chain) <= 1 /\ ~walk.deleted => walk.due = {}

\* "Performs an iteration over each allocated set member" (sack_typelib.h, of
\* ForEachSetMember): the indexes it calls back with are those of the units of the set.
ForEachMeetsEach == Over /\ walk.kind = "each" /\ ~walk.deleted => walk.due = {}
=============================================================================
