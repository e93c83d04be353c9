------------------------------ MODULE MsgQueue ------------------------------
(***************************************************************************)
(* SACK's message queues (typelib/msgqueue.c): a ring of records of        *)
(* unequal lengths in memory that processes share, from which messages are *)
(* taken in order or by their ID, and a list of the threads that sleep     *)
(* until a message comes for them.                                         *)
(*                                                                         *)
(* The ring is the sequence of the records from Bottom to Top, each with   *)
(* its position: a position is in units of 4 bytes, to which the code      *)
(* rounds the lengths.  A record is overwritten when one is stored over    *)
(* it; what the code reads after that is no record, so the model stops.    *)
(*                                                                         *)
(* All is done under the section of the queue, which excludes              *)
(* (CriticalSection shows it): an attempt to store, and a scan with what   *)
(* follows it until the section is left, are one step each.  Where the     *)
(* code keeps the section when it returns, holder says who has it.         *)
(*                                                                         *)
(* Left out: the creation and deletion of a queue, MSGQUE_WAIT_ID, which   *)
(* no caller passes, the change of *MsgID by another thread during a call, *)
(* which none makes, and what a length that has grown (Beyond) carries     *)
(* into the bits above ACTUAL_LEN_MASK: nobody reads them until, after     *)
(* 2^29 bytes, the flags are among them.                                   *)
(***************************************************************************)
EXTENDS Integers, Sequences, SequencesExt

CONSTANTS
  Writers,    \* the threads that send
  Readers,    \* the threads that receive
  Impatient,  \* those of them that pass MSGQUE_NOWAIT
  IDs,        \* the IDs of messages
  AnyID,      \* the ID 0, which asks for any message
  Waits,      \* [reader] the IDs it asks for
  Buffer,     \* [reader] the size of its buffer
  SizeSets,   \* the sets of sizes that messages may have; one of them is in use
  Bodies,     \* contents of messages
  Size,       \* of the ring
  Header,     \* sizeof( MSGDATA )
  Lengths,    \* how many lengths ACTUAL_LEN_MASK leaves: 2^18, in units of 4 bytes
  Places,     \* how many waiters are noted (1023 in the code)
  MayExpire,  \* messages are left unread for longer than the time to live
  MayInterrupt, \* other parts of the program wake readers that sleep
  NoOne, Pending, NoMessage, TooBig

Threads == Writers \cup Readers

ASSUME QueueAssumption ==
  /\ Header \in Nat \ {0} /\ Size \in Nat \ {0} /\ Places \in Nat
  /\ Lengths \in Nat /\ Size < Lengths
  /\ \A s \in UNION SizeSets : s \in Nat /\ 4 * (s + Header) <= Size
  /\ AnyID \notin IDs /\ NoOne \notin Threads
  /\ Writers \cap Readers = {} /\ Impatient \subseteq Threads
  /\ Waits \in [Readers -> SUBSET (IDs \cup {AnyID})]
  /\ Buffer \in [Readers -> Nat]
  /\ Pending \notin [id : IDs, size : UNION SizeSets, body : Bodies] \cup {NoMessage, TooBig}
  /\ MayExpire \in BOOLEAN /\ MayInterrupt \in BOOLEAN

VARIABLES
  sizes,    \* the sizes in use
  top,      \* where the next record goes
  recs,     \* the records from Bottom to Top
  broken,   \* a record has been overwritten
  waiters,  \* who sleeps for which ID, in the order of their coming
  event,    \* [reader] its wake event is set
  holder,   \* who kept the section
  pc,       \* [thread] where it is
  msg,      \* [writer] what it sends
  asked,    \* [reader] *MsgID
  got       \* [reader] what its last call returned

\* The n-th of the places K, and what s has at them, in their order.
Nth(K, n) == CHOOSE k \in K : Cardinality(K \cap 1..k) = n
At(s, K) == [n \in 1..Cardinality(K) |-> s[Nth(K, n)]]

ring == <<sizes, top, recs, broken>>
vars == <<ring, waiters, event, holder, pc, msg, asked, got>>

Messages == [id : IDs, size : UNION SizeSets, body : Bodies]

\* A record: its message and the flags of its length. A record that has been read, or
\* marks the end of the ring, holds none; old, its time to live has passed.
Records == [pos : 0..Size, len : 0..(Lengths - 1), msg : Messages \cup {NoMessage},
            read : BOOLEAN, end : BOOLEAN, old : BOOLEAN]

Init ==
  /\ sizes \in SizeSets
  /\ top = 0 /\ recs = <<>> /\ broken = FALSE
  /\ waiters = <<>> /\ event = [r \in Readers |-> FALSE]
  /\ holder = NoOne
  /\ pc = [t \in Threads |-> "idle"]
  /\ msg = [w \in Writers |-> NoMessage]
  /\ asked = [r \in Readers |-> AnyID]
  /\ got = [r \in Readers |-> NoMessage]

Bottom == IF recs = <<>> THEN top ELSE recs[1].pos

\* The section can be entered by t.
MayEnter(t) == ~broken /\ holder \in {NoOne, t}
-----------------------------------------------------------------------------
(***************************************************************************)
(* EnqueMsgEx                                                              *)
(***************************************************************************)
Length(m)  == m.size + Header
End(m)     == top + Length(m)

\* The record ends where the ring does, or leaves no space for another header there: then
\* a mark is put in its place and it goes to the origin.
AtEnd(m)   == End(m) = Size
\* (Mutation) The header that must still fit is subtracted on the wrong side.
PastEndLate(m) == ~AtEnd(m) /\ End(m) - Header >= Size
PastEnd(m) == ~AtEnd(m) /\ End(m) >= Size - Header

Position(m) == IF PastEnd(m) THEN 0 ELSE top
NewTop(m)   == IF AtEnd(m) THEN 0 ELSE Position(m) + Length(m)

\* Two answers to a record that does not fit: the writer tries again whatever it passed,
\* or it tries again unless it passed MSGQUE_NOWAIT.
NoRoom(m) == ~AtEnd(m) /\ ~PastEnd(m) /\ top < Bottom /\ Bottom < End(m)
\* (Mutation) A record that goes to the origin is stored wherever Bottom is.
FullAtTop(m) == NewTop(m) = Bottom
Full(m)   == \/ PastEnd(m) /\ Bottom <= m.size
             \/ NewTop(m) = Bottom
Accepts(m) == ~NoRoom(m) /\ ~Full(m)

EndMark == [pos |-> top, len |-> 0, msg |-> NoMessage, read |-> TRUE, end |-> TRUE, old |-> FALSE]
Record(m) == [pos |-> Position(m), len |-> Length(m), msg |-> m,
              read |-> FALSE, end |-> AtEnd(m), old |-> FALSE]
Stored(m) == (IF PastEnd(m) THEN <<EndMark>> ELSE <<>>) \o <<Record(m)>>

\* What a record needs of the ring: all its length, or only the word with its length and
\* flags when nothing else of it is read any more.
Extent(x) == x.pos .. x.pos + (IF x.read THEN 0 ELSE x.len - 1)
Overwrites(m) ==
  \E i \in DOMAIN recs, j \in DOMAIN Stored(m) : Extent(recs[i]) \cap Extent(Stored(m)[j]) # {}

\* ScanForWaiting, with the CollapseWaiting that ends it.
\* (Mutation) Who waits for any message is not woken, or nobody else is.
WaitsForExact(x, id) == x.msg = id
WaitsForAny(x, id)   == x.msg = AnyID
WaitsFor(x, id) == x.msg \in {AnyID, id}
WakeWaiters(id) ==
  /\ event' = [r \in Readers |->
                 event[r] \/ \E i \in DOMAIN waiters : waiters[i].me = r /\ WaitsFor(waiters[i], id)]
  /\ waiters' = At(waiters, {i \in DOMAIN waiters : ~WaitsFor(waiters[i], id)})

EnqueMsg(w) ==
  /\ ~broken /\ pc[w] = "idle"
  /\ pc' = [pc EXCEPT ![w] = "sending"]
  /\ \E m \in Messages : m.size \in sizes /\ msg' = [msg EXCEPT ![w] = m]
  /\ UNCHANGED <<ring, waiters, event, holder, asked, got>>

Sent(w) ==
  /\ pc' = [pc EXCEPT ![w] = "idle"]
  /\ msg' = [msg EXCEPT ![w] = NoMessage]
  /\ UNCHANGED <<sizes, holder, asked, got>>

Store(w) ==
  /\ pc[w] = "sending" /\ MayEnter(w)
  /\ Accepts(msg[w]) /\ ~Overwrites(msg[w])
  /\ recs' = recs \o Stored(msg[w])
  /\ top' = NewTop(msg[w])
  /\ WakeWaiters(msg[w].id)
  /\ Sent(w) /\ UNCHANGED broken

Overwrite(w) ==
  /\ pc[w] = "sending" /\ MayEnter(w)
  /\ Accepts(msg[w]) /\ Overwrites(msg[w])
  /\ broken' = TRUE
  /\ Sent(w) /\ UNCHANGED <<top, recs, waiters, event>>

GiveUp(w) ==
  /\ pc[w] = "sending" /\ MayEnter(w) /\ w \in Impatient
  /\ ~NoRoom(msg[w]) /\ Full(msg[w])
  /\ Sent(w) /\ UNCHANGED <<top, recs, broken, waiters, event>>
-----------------------------------------------------------------------------
(***************************************************************************)
(* DequeMsgEx                                                              *)
(***************************************************************************)
\* Records whose time has passed are marked read by the scan that comes to them, and so
\* is the one it takes, the n-th.
Read(x) == [x EXCEPT !.read = TRUE, !.msg = NoMessage, !.old = FALSE]
Marked(n) == [i \in DOMAIN recs |-> IF recs[i].old \/ i = n THEN Read(recs[i]) ELSE recs[i]]

Wanted(r, x) == ~x.read /\ asked[r] \in {AnyID, x.msg.id}
\* (Mutation) Nobody looks at the time to live.
MatchOld(r) == SelectInSeq(recs, LAMBDA x : Wanted(r, x))
Match(r) == SelectInSeq(recs, LAMBDA x : ~x.old /\ Wanted(r, x))
Fits(r)  == Buffer[r] > recs[Match(r)].len

\* (Mutation) Records that have been read stay at the bottom.
LeavesNever(s, i) == FALSE
\* What the scan does to the records it passes: those that are read leave the bottom of
\* the ring, and elsewhere the run of those that follow one is joined to it, as far as the
\* end of the ring. Those beyond the end, at the origin, stay where they are.
Leaves(s, i) == \A j \in 1..i : s[j].read
AfterEnd(s, i) == \E j \in 1..(i - 1) : s[j].end /\ \A k \in j..i : s[k].read
Joins(s, i) == i > 1 /\ s[i].read /\ s[i - 1].read /\ ~AfterEnd(s, i)
Kept(s) == {i \in DOMAIN s : ~Leaves(s, i) /\ ~Joins(s, i)}

\* The scan goes on joining at the origin: a run of read records as far as the end mark of
\* j gets the lengths of those that follow there too, and gets them again with each scan.
\* They lead to one another from the origin on, so what they add is where they end.
Beyond(s, i, j) ==
  LET unread == SelectInSubSeq(s, j + 1, Len(s), LAMBDA x : ~x.read)
      last   == IF unread = 0 THEN Len(s) ELSE unread - 1
  IN  IF s[i].read /\ s[j].end /\ last # j THEN s[last].pos + s[last].len ELSE 0

\* (Mutation) A record that is joined to one that has been read loses its end of the ring.
JoinUnended(s, i, j) ==
  [s[i] EXCEPT !.len = (s[j].pos + s[j].len - s[i].pos + Beyond(s, i, j)) % Lengths]
Join(s, i, j) ==
  [s[i] EXCEPT !.len = (s[j].pos + s[j].len - s[i].pos + Beyond(s, i, j)) % Lengths,
               !.end = s[j].end]
Passed(s) ==
  LET kept == Kept(s)
      size == Cardinality(kept)
  IN  [n \in 1..size |-> Join(s, Nth(kept, n), IF n = size THEN Len(s) ELSE Nth(kept, n + 1) - 1)]

\* The scan ends at the first unread record after the one it takes, or before one that
\* is too big, or at Top.
ScannedTo(s, n) == Passed(SubSeq(s, 1, n)) \o SubSeq(s, n + 1, Len(s))
TakenAt(n) ==
  LET next == SelectInSubSeq(Marked(n), n + 1, Len(recs), LAMBDA x : ~x.read)
  IN  ScannedTo(Marked(n), IF next = 0 THEN Len(recs) ELSE next - 1)

\* CollapseWaiting: a reader that wakes up takes all who wait for its ID off the list.
Collapse(id) == IF id = AnyID THEN waiters ELSE At(waiters, {i \in DOMAIN waiters : waiters[i].msg # id})

DequeMsg(r) ==
  /\ ~broken /\ pc[r] = "idle"
  /\ \E id \in Waits[r] : asked' = [asked EXCEPT ![r] = id]
  /\ pc' = [pc EXCEPT ![r] = "scanning"]
  /\ got' = [got EXCEPT ![r] = Pending]
  /\ UNCHANGED <<ring, waiters, event, holder, msg>>

\* The scan, at first and after a sleep.
Scans(r) ==
  /\ pc[r] \in {"scanning", "woken"} /\ MayEnter(r)
  /\ waiters' = IF pc[r] = "woken" THEN Collapse(asked[r]) ELSE waiters
  /\ UNCHANGED <<sizes, top, broken, event, msg, asked>>

Return(r, what) ==
  /\ pc' = [pc EXCEPT ![r] = "idle"]
  /\ got' = [got EXCEPT ![r] = what]

Receive(r) ==
  /\ Scans(r) /\ Match(r) # 0 /\ Fits(r)
  /\ recs' = TakenAt(Match(r))
  /\ Return(r, recs[Match(r)].msg)
  /\ UNCHANGED holder

\* The section is not left.
ReceiveTooBig(r) ==
  /\ Scans(r) /\ Match(r) # 0 /\ ~Fits(r)
  /\ recs' = ScannedTo(Marked(0), Match(r) - 1)
  /\ holder' = r
  /\ Return(r, TooBig)

ReceiveNothing(r) ==
  /\ Scans(r) /\ Match(r) = 0
  /\ pc[r] = "woken" \/ r \in Impatient
  /\ recs' = Passed(Marked(0))
  /\ Return(r, NoMessage)
  /\ UNCHANGED holder

\* The section is left to sleep.
Sleep(r) ==
  /\ pc[r] = "scanning" /\ r \notin Impatient /\ MayEnter(r)
  /\ Match(r) = 0 /\ Len(waiters) < Places
  /\ recs' = Passed(Marked(0))
  /\ waiters' = Append(waiters, [me |-> r, msg |-> asked[r]])
  /\ pc' = [pc EXCEPT ![r] = "asleep"]
  /\ UNCHANGED <<sizes, top, broken, event, holder, msg, asked, got>>

\* No place is free: the reader tries again for ever, inside the section.
NoPlace(r) ==
  /\ pc[r] = "scanning" /\ r \notin Impatient /\ MayEnter(r)
  /\ Match(r) = 0 /\ Len(waiters) >= Places
  /\ recs' = Passed(Marked(0))
  /\ holder' = r
  /\ pc' = [pc EXCEPT ![r] = "stuck"]
  /\ UNCHANGED <<sizes, top, broken, waiters, event, msg, asked, got>>

\* WakeableSleep ends.
WakeUp(r) ==
  /\ ~broken /\ pc[r] = "asleep" /\ event[r]
  /\ event' = [event EXCEPT ![r] = FALSE]
  /\ pc' = [pc EXCEPT ![r] = "woken"]
  /\ UNCHANGED <<ring, waiters, holder, msg, asked, got>>
-----------------------------------------------------------------------------
(***************************************************************************)
(* The rest of the program, and time                                       *)
(***************************************************************************)
\* A thread has one event for all its sleeps without a name: WakeThread for another purpose.
Interrupt(r) ==
  /\ ~broken /\ MayInterrupt /\ pc[r] = "asleep" /\ ~event[r]
  /\ event' = [event EXCEPT ![r] = TRUE]
  /\ UNCHANGED <<ring, waiters, holder, pc, msg, asked, got>>

\* The time to live of the oldest message passes; all messages have the same.
Expire ==
  /\ ~broken /\ MayExpire
  /\ LET i == SelectInSeq(recs, LAMBDA x : ~x.read /\ ~x.old)
     IN  /\ i # 0
         /\ recs' = [recs EXCEPT ![i].old = TRUE]
  /\ UNCHANGED <<sizes, top, broken, waiters, event, holder, pc, msg, asked, got>>

WriterNext(w) == EnqueMsg(w) \/ Store(w) \/ Overwrite(w) \/ GiveUp(w)
ReaderNext(r) == \/ DequeMsg(r) \/ Receive(r) \/ ReceiveTooBig(r) \/ ReceiveNothing(r)
                 \/ Sleep(r) \/ NoPlace(r) \/ WakeUp(r)

Next == \/ \E w \in Writers : WriterNext(w)
        \/ \E r \in Readers : ReaderNext(r) \/ Interrupt(r)
        \/ Expire

Spec == Init /\ [][Next]_vars

\* A reader that can go on: each of its steps changes its pc.
CanGoOn(r) ==
  /\ ~broken
  /\ \/ pc[r] = "idle"
     \/ pc[r] = "asleep" /\ event[r]
     \/ pc[r] \in {"scanning", "woken"} /\ MayEnter(r)
GoesOn(r) ==
  /\ CanGoOn(r)
  /\ \E at \in {"idle", "scanning", "asleep", "woken", "stuck"} : pc' = [pc EXCEPT ![r] = at]

\* Threads that can run do; readers call again and again.
FairSpec ==
  /\ Spec
  /\ \A w \in Writers : WF_vars(Store(w) \/ Overwrite(w) \/ GiveUp(w))
  /\ \A r \in Readers : WF_pc(GoesOn(r))
-----------------------------------------------------------------------------
(***************************************************************************)
(* Properties                                                              *)
(***************************************************************************)
\* The variables have the values they are meant to have.
TypeOK ==
  /\ sizes \in SizeSets /\ top \in 0..Size /\ broken \in BOOLEAN
  /\ recs \in Seq(Records)
  /\ waiters \in Seq([me : Readers, msg : IDs \cup {AnyID}])
  /\ event \in [Readers -> BOOLEAN]
  /\ holder \in Readers \cup {NoOne}
  /\ pc \in [Threads -> {"idle", "sending", "scanning", "asleep", "woken", "stuck"}]
  /\ msg \in [Writers -> Messages \cup {NoMessage}]
  /\ asked \in [Readers -> IDs \cup {AnyID}]
  /\ got \in [Readers -> Messages \cup {Pending, NoMessage, TooBig}]

\* Each record leads to the next, the last one to Top, whatever was joined, marked and
\* taken from the middle: a scan that starts at Bottom ends, and reads only records
\* (EnqueMsgEx and DequeMsgEx move by the same lengths and the same mark). Only the
\* length of a read record that marks the end, by which nobody moves, may pass the end.
Leads(x) == IF x.end THEN 0 ELSE x.pos + x.len
InRing(x) == (x.read /\ x.end) \/ x.pos + x.len <= Size
RingIsChained ==
  \A i \in DOMAIN recs :
    /\ Leads(recs[i]) = IF i = Len(recs) THEN top ELSE recs[i + 1].pos
    /\ InRing(recs[i]) /\ recs[i].pos # Size

\* No message is stored over one that waits to be read (the comments of EnqueMsgEx say
\* that the writer waits for space).
NeverOverwritten == ~broken

\* It is not when all the messages are of one size, of whatever size.
OneSizeIsSafe == broken => \E s, t \in sizes : s # t

\* A reader sleeps, with no wake under way, only while there is no message for it: the
\* scan that finds nothing and the entry in waiters are one with the section, and whoever
\* takes the entry off the list wakes the reader.
NoMissedMessage ==
  \A r \in Readers : pc[r] = "asleep" /\ ~event[r] =>
    \A i \in DOMAIN recs : Wanted(r, recs[i]) => recs[i].old

\* The queue keeps what MessageChannel promises, in order and once.
Unread == LET unread == {i \in DOMAIN recs : ~recs[i].read /\ ~recs[i].old}
          IN  [n \in 1..Cardinality(unread) |-> recs[Nth(unread, n)].msg]
Channel == INSTANCE MessageChannel WITH chan <- Unread
ImplementsChannel == Channel!Spec

\* A send that waits for space returns, when readers go on taking messages.
SendersReturn == \A w \in Writers : pc[w] = "sending" ~> pc[w] = "idle"

\* A reader that has a message comes out of its sleep.
ReadersWake ==
  \A r \in Readers :
    (pc[r] = "asleep" /\ \E i \in DOMAIN recs : Wanted(r, recs[i])) ~> pc[r] # "asleep"
=============================================================================
