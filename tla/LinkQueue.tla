----------------------------- MODULE LinkQueue ------------------------------
(***************************************************************************)
(* Link queues and data queues (typelib/typecode.c), shared by threads: a  *)
(* ring in allocated memory, which the users of the queue reach through    *)
(* one pointer.  A ring that is full is replaced by a larger one and       *)
(* freed.  One spin lock guards all queues of a kind, except where the     *)
(* code looks at the pointer, or changes it, without.                      *)
(*                                                                         *)
(* A step is what is done under the lock, which is taken and released in   *)
(* between for that alone, or one look at the pointer, or at Bottom or     *)
(* Top, or one change of the pointer, without the lock.  setup says what   *)
(* sort of queue it is and what each thread does with it.                  *)
(*                                                                         *)
(* Left out: the build with USE_CUSTOM_ALLOCER, the functions whose names  *)
(* end in NL, which are the same steps without the lock, and               *)
(* PeekDataInQueueEx, which returns a place in the ring.                   *)
(***************************************************************************)
EXTENDS LinkRing, FiniteSets

CONSTANTS
  Threads,
  Blocks,     \* blocks of memory a ring may be in
  Null,       \* the pointer to none of them
  FirstCnt,   \* [sort] the places of a ring that is created (8 and 2 in the code)
  Indexes,    \* the indexes that are asked for
  Setups,     \* the setups, one of which is in use
  MaxLength,  \* bound: so many links are in the queue or on their way at most
  NoOne, Pending

Sorts == {"link", "data"}
Puts  == {"enque", "preque"}
Ops   == Puts \cup {"deque", "unque", "peek", "empty", "delete"}
Requests == [op : Ops, link : Links \cup {NoLink}, idx : Indexes]

ASSUME QueueAssumption ==
  /\ FirstCnt \in [Sorts -> Nat \ {0, 1}]
  /\ Null \notin Blocks /\ NoOne \notin Threads
  /\ Indexes \subseteq Int /\ 0 \in Indexes
  /\ Pending \notin Links \cup {NoLink}
  /\ Setups \subseteq [sort : Sorts, early : BOOLEAN, back : BOOLEAN, may : [Threads -> SUBSET Ops]]
  /\ MaxLength \in Nat

VARIABLES
  setup,  \* .sort; .early, it was created before the threads began; .may, what they call;
          \* .back, they look at it from its top too, by negative indexes
  queue,  \* the pointer to the ring
  heap,   \* [allocated block] the ring in it
  lock,   \* who has the lock
  pc,     \* [thread] where it is
  ptr,    \* [thread] the pointer as it read it
  walk,   \* [thread] the place it is at in a ring without the lock, and how many are left
  asked,  \* [thread] its call
  got,    \* [thread] what that returned
  fault   \* memory that is not allocated was used

vars == <<setup, queue, heap, lock, pc, ptr, walk, asked, got, fault>>

PCs == {"idle", "called", "create", "lock", "held", "peek", "walk", "free", "clear"}
Still == [at |-> 0, left |-> 0]

NewRing == Created(FirstCnt[setup.sort])

Init ==
  /\ setup \in Setups
  /\ IF setup.early
     THEN \E b \in Blocks : queue = b /\ heap = [c \in {b} |-> NewRing]
     ELSE queue = Null /\ heap = [c \in {} |-> NewRing]
  /\ lock = NoOne
  /\ pc = [t \in Threads |-> "idle"] /\ ptr = [t \in Threads |-> Null]
  /\ walk = [t \in Threads |-> Still]
  /\ asked = [t \in Threads |-> [op |-> "deque", link |-> NoLink, idx |-> 0]]
  /\ got = [t \in Threads |-> NoLink]
  /\ fault = FALSE

Op(t)     == asked[t].op
Live      == DOMAIN heap
\* Blocks that are not allocated, and that nobody has a pointer to: a block that is used
\* after it was freed is never taken for another one.
Fresh     == {b \in Blocks \ Live : queue # b /\ \A t \in Threads : ptr[t] # b}

Goto(t, at) == pc' = [pc EXCEPT ![t] = at]
Return(t, l) ==
  /\ Goto(t, "idle") /\ got' = [got EXCEPT ![t] = l]
  /\ ptr' = [ptr EXCEPT ![t] = Null] /\ walk' = [walk EXCEPT ![t] = Still]
  /\ UNCHANGED <<setup, asked, fault>>
Is(t, at)  == pc[t] = at /\ ~fault

\* Links in the queue, and calls that may put another there.
Used    == IF queue \in Live THEN Length(heap[queue]) ELSE 0
HasRoom == Used + Cardinality({t \in Threads : pc[t] # "idle" /\ Op(t) \in Puts}) < MaxLength
-----------------------------------------------------------------------------
(***************************************************************************)
(* The call, and the first look at the pointer, without the lock           *)
(***************************************************************************)
IsLink == setup.sort = "link"

\* A call passes a link to what puts it there, and an index to what looks; that of a data
\* queue has no sign.
Request(q) ==
  /\ q.op \notin Puts => q.link = NoLink
  /\ q.op # "peek" => q.idx = 0
  /\ q.idx < 0 => IsLink /\ setup.back

Call(t) ==
  /\ Is(t, "idle")
  /\ \E q \in Requests :
       /\ q.op \in setup.may[t] /\ Request(q)
       /\ q.op \in Puts => HasRoom
       /\ asked' = [asked EXCEPT ![t] = q]
  /\ Goto(t, "called") /\ got' = [got EXCEPT ![t] = Pending]
  /\ UNCHANGED <<setup, queue, heap, lock, ptr, walk, fault>>

\* Only a link queue is created by what needs it.
StartCreate(t) ==
  /\ Is(t, "called") /\ queue = Null
  /\ IsLink /\ Op(t) \in Puts
  /\ Goto(t, "create")
  /\ UNCHANGED <<setup, queue, heap, lock, ptr, walk, asked, got, fault>>

StartNothing(t) ==
  /\ Is(t, "called") /\ queue = Null
  /\ ~(IsLink /\ Op(t) \in Puts) /\ Op(t) # "delete"
  /\ Return(t, NoLink)
  /\ UNCHANGED <<queue, heap, lock>>

\* PeekQueueEx is passed the pointer, and takes no lock.
StartPeek(t) ==
  /\ Is(t, "called") /\ queue # Null
  /\ IsLink /\ Op(t) = "peek"
  /\ ptr' = [ptr EXCEPT ![t] = queue] /\ Goto(t, "peek")
  /\ UNCHANGED <<setup, queue, heap, lock, walk, asked, got, fault>>

\* Nor does DeleteDataQueueEx.
StartDelete(t) ==
  /\ Is(t, "called") /\ ~IsLink /\ Op(t) = "delete"
  /\ Goto(t, "free")
  /\ UNCHANGED <<setup, queue, heap, lock, ptr, walk, asked, got, fault>>

StartLock(t) ==
  /\ Is(t, "called")
  /\ \/ IsLink /\ Op(t) = "delete"
     \/ queue # Null /\ Op(t) # "delete" /\ ~(IsLink /\ Op(t) = "peek")
  /\ Goto(t, "lock")
  /\ UNCHANGED <<setup, queue, heap, lock, ptr, walk, asked, got, fault>>

Create(t) ==
  /\ Is(t, "create")
  /\ \E b \in Fresh :
       /\ heap' = [c \in Live \cup {b} |-> IF c = b THEN NewRing ELSE heap[c]]
       /\ queue' = b
  /\ Goto(t, "lock")
  /\ UNCHANGED <<setup, lock, ptr, walk, asked, got, fault>>
-----------------------------------------------------------------------------
(***************************************************************************)
(* Under the lock                                                          *)
(***************************************************************************)
\* The lock is taken and the pointer read again. A link queue may be gone by then.
Lock(t) ==
  /\ Is(t, "lock") /\ lock = NoOne /\ Op(t) # "delete"
  /\ IsLink => queue # Null
  /\ lock' = t /\ ptr' = [ptr EXCEPT ![t] = queue]
  /\ Goto(t, "held")
  /\ UNCHANGED <<setup, queue, heap, walk, asked, got, fault>>

LockNothing(t) ==
  /\ Is(t, "lock") /\ lock = NoOne /\ Op(t) # "delete"
  /\ IsLink /\ queue = Null
  /\ Return(t, NoLink)
  /\ UNCHANGED <<queue, heap, lock>>

\* DeleteLinkQueueEx takes the lock and releases it, and frees the ring then.
LockDelete(t) ==
  /\ Is(t, "lock") /\ lock = NoOne /\ Op(t) = "delete"
  /\ Goto(t, "free")
  /\ UNCHANGED <<setup, queue, heap, lock, ptr, walk, asked, got, fault>>

\* The blocks that are used: what puts a link there keeps the pointer it read, the others
\* read it again, and so does ExpandLinkQueueEx.
Takes(t) == Op(t) \in Puts /\ asked[t].link # NoLink
Grows(t) == Takes(t) /\ ptr[t] \in Live /\ Full(heap[ptr[t]])
Uses(t)  == (IF Takes(t) THEN {ptr[t]} ELSE {})
              \cup (IF Op(t) \notin Puts \/ Grows(t) THEN {queue} ELSE {})

Holds(t) == Is(t, "held") /\ Uses(t) \subseteq Live
Unlock   == lock' = NoOne

Put(t, r) == IF Op(t) = "enque" THEN AtTop(r, asked[t].link) ELSE AtBottom(r, asked[t].link)

\* EnqueLinkEx writes the pointer back; the others do not.
WriteBack(t) == queue' = IF IsLink /\ Op(t) = "enque" THEN ptr[t] ELSE queue

PutLink(t) ==
  /\ Holds(t) /\ Takes(t) /\ ~Grows(t)
  /\ heap' = [heap EXCEPT ![ptr[t]] = Put(t, @)]
  /\ WriteBack(t) /\ Unlock /\ Return(t, NoLink)

\* (Mutation) The old ring is not freed.
PutExpandKeeps(t) ==
  /\ Holds(t) /\ Grows(t)
  /\ \E b \in Fresh :
       /\ heap' = [c \in Live \cup {b} |-> IF c = b THEN Put(t, Expanded(heap[queue])) ELSE heap[c]]
       /\ queue' = b
  /\ Unlock /\ Return(t, NoLink)

\* (Mutation) The pointer is not changed.
PutExpandApart(t) ==
  /\ Holds(t) /\ Grows(t)
  /\ \E b \in Fresh :
       heap' = [c \in (Live \ {queue}) \cup {b} |->
                  IF c = b THEN Put(t, Expanded(heap[queue])) ELSE heap[c]]
  /\ WriteBack(t) /\ Unlock /\ Return(t, NoLink)

\* The ring is copied to a new block and the old one freed.
PutExpand(t) ==
  /\ Holds(t) /\ Grows(t)
  /\ \E b \in Fresh :
       /\ heap' = [c \in (Live \ {queue}) \cup {b} |->
                     IF c = b THEN Put(t, Expanded(heap[queue])) ELSE heap[c]]
       /\ queue' = b
  /\ Unlock /\ Return(t, NoLink)

PutNothing(t) ==
  /\ Holds(t) /\ Op(t) \in Puts /\ ~Takes(t)
  /\ WriteBack(t) /\ Unlock /\ Return(t, NoLink)
  /\ UNCHANGED heap

Deque(t) ==
  /\ Holds(t) /\ Op(t) = "deque"
  /\ LET r == heap[queue]
     IN  IF Empty(r)
         THEN Return(t, NoLink) /\ UNCHANGED heap
         ELSE Return(t, r.node[r.bottom]) /\ heap' = [heap EXCEPT ![queue] = WithoutBottom(r)]
  /\ Unlock /\ UNCHANGED queue

Unque(t) ==
  /\ Holds(t) /\ Op(t) = "unque"
  /\ LET r == heap[queue]
     IN  IF Empty(r)
         THEN Return(t, NoLink) /\ UNCHANGED heap
         ELSE Return(t, r.node[Before(r, r.top)]) /\ heap' = [heap EXCEPT ![queue] = WithoutTop(r)]
  /\ Unlock /\ UNCHANGED queue

PeekLocked(t) ==
  /\ Holds(t) /\ Op(t) = "peek"
  /\ Return(t, Peeked(heap[queue], asked[t].idx))
  /\ Unlock /\ UNCHANGED <<queue, heap>>

MakeEmpty(t) ==
  /\ Holds(t) /\ Op(t) = "empty"
  /\ heap' = [heap EXCEPT ![queue] = Emptied(@)]
  /\ Unlock /\ Return(t, NoLink) /\ UNCHANGED queue
-----------------------------------------------------------------------------
(***************************************************************************)
(* Without the lock                                                        *)
(***************************************************************************)
\* PeekQueueEx counts idx down from Bottom, as far as Top, or up from Top, as far as Bottom.
\* It reads where it starts from once, and where it must stop again at each turn.
Backwards(t) == asked[t].idx < 0
Stop(t, r)   == IF Backwards(t) THEN r.bottom ELSE r.top

PeekFrom(t) ==
  /\ Is(t, "peek") /\ ptr[t] \in Live
  /\ LET r == heap[ptr[t]]
     IN  walk' = [walk EXCEPT ![t] =
                    IF Backwards(t) THEN [at |-> Before(r, r.top), left |-> asked[t].idx + 1]
                                    ELSE [at |-> r.bottom, left |-> asked[t].idx]]
  /\ Goto(t, "walk")
  /\ UNCHANGED <<setup, queue, heap, lock, ptr, asked, got, fault>>

Walks(t, r) == walk[t].left # 0 /\ walk[t].at # Stop(t, r)

WalkOn(t) ==
  /\ Is(t, "walk") /\ ptr[t] \in Live
  /\ LET r == heap[ptr[t]]
     IN  /\ Walks(t, r)
         /\ walk' = [walk EXCEPT ![t] =
                       IF Backwards(t) THEN [at |-> Before(r, @.at), left |-> @.left + 1]
                                       ELSE [at |-> After(r, @.at), left |-> @.left - 1]]
  /\ UNCHANGED <<setup, queue, heap, lock, pc, ptr, asked, got, fault>>

\* The count ran out at a place that is used: from the top, if any is.
Found(t, r) == walk[t].left = 0 /\ IF Backwards(t) THEN ~Empty(r) ELSE walk[t].at # r.top

\* What the last turns read stays as it is while others at most take links from the bottom:
\* the loop's last test, the test of emptiness and the read of the place are one step.
WalkEnds(t) ==
  /\ Is(t, "walk") /\ ptr[t] \in Live
  /\ LET r == heap[ptr[t]]
     IN  ~Walks(t, r) /\ Return(t, IF Found(t, r) THEN r.node[walk[t].at] ELSE NoLink)
  /\ UNCHANGED <<queue, heap, lock>>

Free(t) ==
  /\ Is(t, "free") /\ queue \in Live \cup {Null}
  /\ heap' = [c \in Live \ {queue} |-> heap[c]]
  /\ Goto(t, "clear")
  /\ UNCHANGED <<setup, queue, lock, ptr, walk, asked, got, fault>>

Clear(t) ==
  /\ Is(t, "clear")
  /\ queue' = Null
  /\ Return(t, NoLink)
  /\ UNCHANGED <<heap, lock>>

\* A block that was freed is used, or freed again. What comes of it is not modelled.
Fault(t) ==
  /\ \/ Is(t, "held") /\ ~(Uses(t) \subseteq Live)
     \/ (Is(t, "peek") \/ Is(t, "walk")) /\ ptr[t] \notin Live
     \/ Is(t, "free") /\ queue \notin Live \cup {Null}
  /\ fault' = TRUE
  /\ UNCHANGED <<setup, queue, heap, lock, pc, ptr, walk, asked, got>>

Start(t)  == StartCreate(t) \/ StartNothing(t) \/ StartPeek(t) \/ StartDelete(t) \/ StartLock(t)
Locked(t) == PutLink(t) \/ PutExpand(t) \/ PutNothing(t) \/ Deque(t) \/ Unque(t)
               \/ PeekLocked(t) \/ MakeEmpty(t)

\* The model stops after a fault, and where a bound is reached.
Stopped == (fault \/ Fresh = {} \/ ~HasRoom) /\ UNCHANGED vars

ThreadNext(t) ==
  \/ Call(t) \/ Start(t) \/ Create(t)
  \/ Lock(t) \/ LockNothing(t) \/ LockDelete(t) \/ Locked(t)
  \/ PeekFrom(t) \/ WalkOn(t) \/ WalkEnds(t) \/ Free(t) \/ Clear(t) \/ Fault(t)

Next == Stopped \/ \E t \in Threads : ThreadNext(t)

Spec == Init /\ [][Next]_vars
-----------------------------------------------------------------------------
(***************************************************************************)
(* Properties                                                              *)
(***************************************************************************)
\* What the threads may do with a queue so that the code keeps its promises: if one
\* deletes the queue no other thread uses it, if it was not created before, one thread
\* puts the first links there, and while a link queue is looked into from its bottom, other
\* threads at most take links from there, from its top, they only look too.
IsSafe(s) ==
  \A t, u \in Threads : t # u =>
    /\ "delete" \in s.may[t] => s.may[u] = {}
    /\ ~s.early => s.may[t] \cap Puts = {} \/ s.may[u] \cap Puts = {}
    /\ s.sort = "link" /\ "peek" \in s.may[t] =>
         s.may[u] \subseteq {"peek"} \cup (IF s.back THEN {} ELSE {"deque"})

\* The variables have the values they are meant to have.
TypeOK ==
  /\ setup \in Setups /\ queue \in Blocks \cup {Null}
  /\ Live \subseteq Blocks /\ \A b \in Live : IsRing(heap[b])
  /\ lock \in Threads \cup {NoOne}
  /\ pc \in [Threads -> PCs] /\ ptr \in [Threads -> Blocks \cup {Null}]
  /\ asked \in [Threads -> Requests] /\ got \in [Threads -> Links \cup {NoLink, Pending}]
  /\ fault \in BOOLEAN
  /\ walk \in [Threads -> [at : Nat, left : Int]]
  /\ \A t \in Threads : pc[t] = "walk" /\ ptr[t] \in Live => walk[t].at < heap[ptr[t]].cnt

\* No thread uses the memory of a ring that has been replaced or deleted, though each
\* looks at the pointer before it has the lock.
NoFault == IsSafe(setup) => ~fault

\* The lock belongs to a thread in the middle of its step, and comes back on every return
\* (each return of the code writes it).
LockIsReturned ==
  /\ \A t \in Threads : (lock = t) = (pc[t] = "held")
  /\ lock # NoOne => pc[lock] = "held"

\* A ring that is allocated is the one the queue has.
NoLeak == IsSafe(setup) => Live \subseteq {queue}

\* The queue is a sequence on which each call acts at once; a walk from the bottom, when it
\* reads where that is, whatever is taken while it goes on. What it will find is certain then.
Items   == IF queue \in Live THEN Contents(heap[queue]) ELSE <<>>
IsOpen  == IsLink \/ queue # Null
Rest(r, i) == Ring(r.cnt, r.top, i, r.node)
Answers == [t \in Threads |->
              IF pc[t] = "walk" /\ ptr[t] \in Live /\ ~Backwards(t)
              THEN Peeked(Rest(heap[ptr[t]], walk[t].at), walk[t].left)
              ELSE got[t]]
Deques  == INSTANCE LinkDeque WITH items <- Items, open <- IsOpen, got <- Answers
ImplementsDeque ==
  Deques!Init /\ [][IsSafe(setup) => Deques!Next]_<<Items, IsOpen, asked, Answers>>
=============================================================================
