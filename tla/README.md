# A verification project for SACK

SACK is a portability library in C: memory, threads, timers, containers,
networking, message services, a virtual file system, and the applications built
on them.  This directory holds TLA+ models of its concurrent core, the TLC
configurations that check them on small instances, and theorems about them that
TLAPS checks.  Paths below are those of the repository.

The build that is modelled is Linux on x86-64 in C, without `_DEBUG`,
`DEBUG_CRITICAL_SECTIONS`, `USE_NATIVE_CRITICAL_SECTION` and
`USE_SACK_CUSTOM_MEMORY_ALLOCATION`.  Memory is taken to be sequentially
consistent: the shared words are volatile, and the spin flags are taken with a
locked exchange.

    tlc -config CriticalSection.cfg MCCriticalSection.tla     a run (see Runs)
    tlapm CriticalSectionProofs.tla                           the proofs

PROJECT.json lists the runs with their properties, the source lines behind every
definition, one mutation per checked property, the hazards of the code, and the
theorems.

## The system

Everything rests on a few libraries under `src/src`, and these rest on one
another in a circle: a critical section (memlib) sleeps on the wake event of a
thread record (timerlib), which lives in a set (typelib), which is allocated from
a heap (memlib), which is protected by a critical section.

| component | state it keeps | operations | what is hard | what makes it correct |
|---|---|---|---|---|
| critical sections: memlib/sharemem.c, timerlib/timers.c | spin flag, owner, count, head of a list of waiters that is spread over the waiters' stacks | enter (blocking, or one try), leave (waking, or not) | barging past waiters, reads made without the flag, wakes sent after the release, one event per thread for all the sections | exclusion; the list stays a list; no wake is lost; every call returns |
| timers: timerlib/timers.c | list of timers with relative deltas, last_tick, one slot for a timer to add and one to remove, a counter of inserters, the timer being called back | AddTimer, RemoveTimer, RescheduleTimer, ChangeTimer from threads and callbacks; the timer thread | two locks and several words that no lock protects; callbacks that change the list; sleep against wake | a timer is in one place; it runs when it was to run, and not after its removal; the thread wakes in time |
| thread records: timerlib/timers.c | set of records, spin lock, a pipe per record | MakeThread, ThreadTo, EndThread, UnmakeThread, WakeThread, WakeableSleep | a record is reused while its last thread still writes it; threads find each other by search without a lock | one record per thread; a wake reaches the thread it names |
| heap and shared regions: memlib/sharemem.c | blocks with owners, lists of free blocks, mapped files | Allocate, Hold, Release, OpenSpace, CloseSpace | polled section in memory that processes share; splitting and joining blocks | blocks do not overlap; a held block is not freed |
| link and data queues: typelib/typecode.c | a ring behind one pointer, a global spin lock per kind | Create, Enque, Preque, Deque, Unque, Peek, Empty, Delete, Expand | the pointer is read, created and freed outside the lock; a full ring is replaced by another | a queue is a sequence with two ends; no link is lost, no freed ring used |
| lists, stacks: typelib/typecode.c | arrays behind one pointer, a global spin lock | Add, Set, Delete, Push, Pop | as for queues | no link is lost |
| sets: typelib/sets.c | blocks of units with usage bits, counts and biases | GetFromSet, GetSetMember, GetMemberIndex, DeleteFromSet, DeleteSetMember, ForAllInSet, ForEachSetMember | blocks are chained in another order than their indexes; callbacks change the set that is walked; not locked | a unit has one user; an index leads to its unit; a walk meets every unit |
| message queues: typelib/msgqueue.c | ring of messages with marks, list of 1024 waiters, a section in shared memory | Create, Open, Enque, Deque, Delete | wrap of the ring, messages read out of order, time to live, wakes, error paths with the section held | messages of an ID arrive once, in order; a waiting reader is woken |
| network clients: netlib/network.c, network_linux.c, tcpnetwork.c | lists of available, active and closed clients, two sections per client, csNetwork, pending writes, recyclePending, serial | get a free client, NetworkLock, NetworkUnlock, close, terminate, recycle; epoll threads | close against events, deferred recycling, locks in two orders | a client is in one list, never available while locked; a close ends |
| websockets: netlib/html5.websocket | state of the handshake, of a frame, of a message of fragments | open, send, receive, ping, close | fragments between control frames; both ends close | messages arrive whole; a close is answered once |
| idle procedures: idlelib | list of procedures, section | AddIdleProc, RemoveIdleProc, Idle | the list is walked without the section, and callbacks change it | a removed procedure is not called or freed twice |
| start and exit: deadstart | two lists of procedures by priority | Register, InvokeDeadstart, InvokeExits | procedures that register procedures while the list runs | every procedure once, in the order of its priority |
| registry of names: procreglib | tree of names and values | Register, GetRegistered | one lock, sequential | |
| message services: msgsvr | clients, servers and event queues over message queues | connect, transact, send, disconnect | a service or client that dies; answers that come late | an answer goes to its request |
| virtual file system: utils/virtual_file_system | blocks, chains of blocks, directories, timeline, in one mapped file | open, read, write, seek, unlink, scan | a stop between two block writes; cursors that move when blocks are added | a block is in one chain; a file reads as written |
| trees, text, http, url, fractions, configuration | data structures of one thread | | boundary cases | pure functions: reference definitions |
| sysloglib, commlib, SQLlib, filesyslib, systemlib, ssl and ssh layers, translationlib, vectlib, display and applications | mostly that of the operating system or of another library | | | |

How they interact.  Timers take `csGrab` and `cs_timer_change`, network clients
take `csNetwork` and their own two sections, and each Allocate made inside polls
a heap's.  All the blocked threads sleep on one event each, "sack.critsec".
Timer callbacks, idle procedures and network callbacks run on the library's
threads and call back into the library.  Message queues sleep and wake through
thread records; msgsvr is built on the queues and on timers.

## Modules

| module | what it is |
|---|---|
| RecursiveMutex | abstract: what a critical section promises |
| CriticalSection | the critical section, step by step, and its properties |
| MCCriticalSection | its instances for TLC |
| CriticalSectionProofs | theorems about it |
| TimerList | the list of timers and its deltas, as operators |
| Timers | the timer thread and the threads that call it, and their properties |
| MCTimers | its instances for TLC |
| TimersProofs | lemmas about the list and its sums, theorems about the timers |
| NetClient | the clients of the network layer: opened, locked, closed, recycled, read from |
| MCNetClient | its instances for TLC |
| NetListsProofs, NetClientProofs | lemmas about the three lists, theorems about the clients |
| MessageChannel | abstract: what a message queue promises |
| MsgQueue | the ring of messages, its readers, writers and waiters, and their properties |
| MsgQueueProofs | theorems about MsgQueue |
| MCMsgQueue | its instances for TLC |
| LinkDeque | abstract: what a link or data queue promises |
| LinkRing | the ring of links, its operations as operators |
| LinkQueue | the queue that threads share through a pointer and a lock |
| MCLinkQueue | its instance for TLC |
| LinkRingProofs, LinkQueueProofs | lemmas about the ring, theorems about the queue |
| Sets | sets of units: blocks, biases, counts, walks with callbacks |
| MCSets | its instance for TLC |
| SetsProofs | theorems about them |

### CriticalSection

`dwUpdating`, `dwLocks`, `dwThreadID` and `dwThreadWaiting` are the fields of
`struct critical_section_tag` (src/include/sharemem.h).  `event` is the pipe of
the record that FindThreadWakeup( "sack.critsec", thread ) makes for a thread,
the same one for all the sections; a pipe with several bytes ends several
sleeps, one at a time, and a sleep that ends only looks again, so a set event
stands for all of them.  `pc`, `section`, `queues`, `prior` and `dwWaiting` are
the calls the threads are in and their locals.  `held` counts the entries a
thread has been granted and not begun to give back: it belongs to the users and
is the variable of the abstract mutex.

One action stands for each atomic access that decides something: XCHG of the
flag (TakeFlag, TakeFlagToLeave, NoWaitBusy); under the flag a look at the owner
(Look) and then one action per branch of EnterCriticalSecNoWaitEx (ClaimFree,
ClaimAsHead, ClaimPastWaiters, Defer, Reenter, Enqueue, StayOut); outside it the
read of the owner before the sleep (CheckOwner), the sleep's two ends (WokenUp,
SleepTimeout), and the wake after the release (WakeWaiter).  The branch and the
release of the flag are one step, because nobody else reads what the branch
writes before the flag is clear, except `dwThreadID`, which CheckOwner reads:
a claim writes it before the flag is released, and a leave writes it in a step
of its own, after the count.

Three ways of using a section are in the code and in the model: blocking
(EnterCriticalSecEx), tried with a wake at the end (csNetwork, `TriedSections`)
and polled without one (a heap's, through GrabMemEx and DropMemEx,
`PolledSections`).  `Nesting` says which sections may be entered inside which;
CallsReturn holds for sections that are taken in an order, not for others.

### Timers

`timers` is the list as a sequence; that a timer is in it exactly when its `me`
is not NULL is what InOnePlace and NoFault together check.  `delta`,
`last_tick`, `frequency`, `flags`, the two slots, `away_in_timer`,
`insert_while_away_count`, `current_timer` and `CurrentTimerID` are the fields of
the same names.  `due` is no field: it is when a timer was to run when it was
last linked in, against which the deltas are checked.  Nor is `behind`: it keeps how old
`newtick` was when the sleep was computed.  `tpc` says where the timer
thread stands in ProcessTimers, `call` where each client stands.

What is done under `csGrab` alone is one action, because CriticalSection's
theorems say that sections exclude; what is read or written without it is an
action of its own, and a section that is held across two such steps is recorded
in `csGrab` and `change`.  `insert_while_away_count++` and `flags.bRemoved = 1`
are a read and a write.  `Depart` merges the writes of away_in_timer and
CurrentTimerID with the beginning of the callback: a client that reads the first
in between only counts itself, and looks again.  Callbacks are any sequence of
additions, removals of other timers, a removal of the timer itself, and
reschedulings, as long as the callback lasts (`CallbackCalls`); the functions of
timers are not NULL.

`Clients`, with `Adders`, `Removers`, `Reschedulers` and `Changers`, say who may
call what, because several of the properties hold for some users and not for
others (see Findings).  A timer is never made twice: the reuse of IDs and of
records is left out.

### NetClient

`next` and `me` are the links of the three lists: `me` names the list or the
client whose `next` leads to a client, so that taking a client out (GrabClient)
does what it does in C, and a stale `me` would cut the wrong list.  `flags` holds
the four flags of dwFlags that the paths modelled here decide by; `socket`,
`serial` and `recyclePending` are the fields; `csLock` the two sections of a
client and `csNetwork` the global one, each an owner and a count, as RecursiveMutex
promises of CriticalSection.  A try that is refused may also stand for a busy spin
flag.  `thread` is the call each thread is in and its locals: a thread locks or
unlocks the channels in `todo` in turn and goes on at `ok` or `no`, so that
NetworkLockEx and NetworkUnlockEx are written once and used from RemoveClientExx,
InternalRemoveClientExx, the read events and the holders of a kept serial.
`opens` and `connection` are history: which of the sockets a client stands for.

What is done under csNetwork and read by nobody outside it is one step.  The looks
at flags and counts that are made without it are steps of their own (LockCheck,
UnlockTest, EventFlags, EventSocket, Terminate), as are the two looks of the
deferred recycle and the recycle itself (Recheck, Recycle: the sections may be
entered in between), the moment in which InternalRemoveClientExx leaves csNetwork
(Yield) and the two halves of AddActive, which is not under csNetwork at all.
A trap of LeaveCriticalSecEx ends the process (Trap).

The clients are UDP sockets: RemoveClientExx closes those itself, while it only
shuts a connected TCP socket down and leaves the close to its events.  TCP,
with its writes and connects, is left for a module on top of this one, and so are
opens that fail (see Findings).  Lockers stand for whoever keeps a client and its
serial across a wait, as the connect timeout does (tcpnetwork.c:95-133).

### MsgQueue

`recs` is the ring from `Bottom` to `Top` as the sequence of its records, each with
its place, its length, its message and whether it was read or is too old; `Top`,
`Bottom` and the end of the ring decide, as in EnqueMsgEx, whether a record goes
after the last, ends where the ring does, or goes to the origin behind an end mark.
Sizes are counted in units of four bytes.  Joining goes on beyond a record that was read
as far as the end of the ring: it gets the length of those that follow at the origin too,
though they stay, and gets it again with every scan (Beyond), so that its length passes
the end of the ring; nobody moves by it, since the mark sends everyone to the origin.
`waiters` is the list of waiters, `event`
the wake event of each reader's thread.  A call that does not sleep is one step,
since all of it is done in the queue's section; `holder` is who keeps the section
when a call returns with it (E2BIG) or repeats inside it (no place for a waiter),
which in the code is for ever.  `broken` notes that a message was stored over one
that was not read; nothing is said of the queue from there on.  An Interrupt wakes a
reader without a message: one thread has one event for all its sleeps.

The abstract MessageChannel is a sequence of messages: a send appends one, a receive
takes the first that the reader asked for, and a message may expire, the oldest
first.  MsgQueue implements it while nothing is overwritten.  Who is left of a list,
or of the ring, is said by the set of the places that are (Kept, At), which has them
in their order.  `Lengths` stands for the 2^18 lengths that ACTUAL_LEN_MASK leaves; what
a length that grows carries into the bits above is left out.

Left out: creation and deletion of a queue; MSGQUE_WAIT_ID and the abort of a wait
through *MsgID, which no caller in the repository uses; empty messages, which msgsvr
never sends; lengths that are not multiples of 4.  That MSGQUE_NOWAIT is not looked
at on the "No room" path (msgqueue.c:580-588), and MSGQUE_EXCEPT nowhere, was found
by reading.

### LinkQueue

`queue` is the pointer that the users of a queue share, `heap` the rings that are
allocated.  A ring (LinkRing) is its places with Top and Bottom; the operators are
translated one by one from EnqueLinkEx, PrequeLinkEx, DequeLink, UnqueData,
PeekQueueEx and ExpandLinkQueueEx, and the data queues, which are written apart in the
same file, share them where the code is the same.  A step is what is done under the
lock, or one access to the pointer outside it: the test for NULL before the lock, the
creation without it, the release of the ring and of the pointer in two steps after it
(DeleteLinkQueueEx), the pointer that PeekQueueEx got as its argument, and each turn
of the loop in which that function goes through the ring without the lock (PeekFrom,
WalkOn, WalkEnds): it reads the end it starts from once, and the end where it must stop
at each turn.  `setup` says what sort of queue it is, whether it was created before the
threads began, what each thread calls, and whether anyone looks from the top (`back`,
idx < 0); IsSafe names what its users must see to: who deletes is alone, a queue that is
not created early is put to by one thread only, and beside one that peeks at a link
queue others at most take links from its bottom, or, where it looks from the top, only
peek.  The last is needed: a walk from the top stops where Bottom is, and passes a
Bottom that has moved beyond it.  The comment in tcpnetwork.c:174-178 tells of such a
scan being given up.  The properties are stated for the setups that are safe, and TLC
goes through unsafe ones too, so that what they break is in the model: without IsSafe
each of NoFault, NoLeak and ImplementsDeque fails.

For ImplementsDeque a walk from the bottom acts when it reads Bottom: links that are
taken meanwhile stay in their places, so that what it will return is certain then
(Answers).  A walk from the top acts when it ends.

### Sets

`chain` is the list of blocks by `next`; `bias`, `bits` and `nUsed` are the fields of
genericset_tag, and a unit is its block and its place.  `held` are the units the
caller has.  Each function is one action, as the caller is one thread or has a lock;
a walk is as many as it makes steps, because its callback (`calling`) makes all the
other calls.  PerSet is a multiple of 32 in all the sets of the libraries: the test
of the last word of a block that is not full cannot fail, and is left out.  The
callers are of two kinds: those that go by units, for which everything holds, and
those that also mark and delete by index, for which it does while the set has one
block: GetSetMemberEx marks in the first block of the chain and DeleteSetMemberEx
counts the blocks in the order of the chain, which GetFromSet reverses.

## Runs

A run ends when TLC has seen every state.  Every property of a passing run has a
mutation of the code that makes the same run fail (PROJECT.json, "mutants").

| run | instance | what it shows |
|---|---|---|
| one_section | 3 threads, 1 section entered, re-entered and left, depth 2, fair | types, exclusion, the list of waiters, no lost wake, no DebugBreak reached; every call returns, though only the head of the list is ever woken and the 25 ms timeout is not counted on; 31,163 states |
| nested_sections | 2 threads, sections a, b in a (b also tried), and a polled heap section in either, fair | a wake for one section is not used up waiting for another; implements RecursiveMutex; every call returns; 32,840 states |
| timer_callbacks | 3 timers, 1 adding client, callbacks that take time and make every call, clock up to 1 | no timer is lost, early or off its time, a removed one is not called back, and the thread sleeps past what is due by no more than its tick was old; 1.2 million states |
| timer_clients | 2 adding clients, one also reschedules and changes; 1 resident timer of 3 | no timer is lost or linked twice, whatever counts and flags are lost; 1.8 million states |
| timers_live | an adder, a remover, a resident timer, clock up to 3, fair | calls return once no new ones are made, and what is due is called back; 37,447 states |
| net_clients | 2 clients, one open; one thread opens and closes, one locks a client it has kept, one handles read events of the other client; 1 socket opened | the lists stay lists with the right clients; no client is recycled twice, forgotten, or locked for another connection than was meant; nobody waits for csNetwork with a section that its owner spins for; 132,778 states |
| msg_ring | ring of 28 units (headers of 5), messages of length {1}, {2} or both, one writer, a reader by ID and one of any message, one message expires | the ring keeps what MessageChannel promises, records lead to one another through joins and wraps, no reader sleeps beside its message, only two sizes together can overwrite; 845,322 states |
| msg_live | one size, a reader for each ID, interrupts, 2 places for waiters, fair | what is sent is stored in the end, a reader that has a message wakes; 40,815 states |
| link_queue | 2 threads, 2 links, rings of 2 places that grow by 1, at most 3 links, 3 blocks of memory, indexes from -3 to 2, 9 setups | implements LinkDeque, uses no freed ring, loses none; 566,793 states |
| sets | blocks of 2 units; 3 blocks by units, 2 by index | indexes and biases agree, no unit is given twice or lost, a walk meets every unit that stays; 1,425,309 states |
| remove_hangs, available_locked | small ones | findings, below |

Why the bounds are enough.  Three threads are the fewest for which the list of
waiters has a middle: a head, a thread behind it and a thread that barges; what
happens to a list of any length is proved.  Depth 2 is the first re-entry.  For
timers: three make an insertion before, between and after; `Delays` and
`Frequencies` of 0 and 1 give equal and different times, one shot and periodic
timers; with a clock of 1 a timer comes due, is late, and is put back; the live
run goes up to 3, so that a delay of 2 is slept, woken from early, and slept again.
`CountValues` = 4 stands for the 2^32 values of the counter: with two adders a
lost decrement wraps it.  `MaxDelta` and `NearClock` cut off executions in which
ChangeTimerEx drives last_tick away from the clock: see below.  `TimePasses` names
the places of the timer thread where the clock may advance: its sleeps, and in
timer_callbacks also its callbacks and the moment before it sleeps; elsewhere its steps
take no time in the runs, but may in the theorems.  In the live run callbacks take no
time, because a thread that oversleeps could sleep beyond the last tick.  After the last
tick nothing comes due any more and everything stops: the timer runs do not check
deadlock.

For clients: two make a list with a middle and an end, and let a client that was
closed be opened again while a thread still has it; the second is the one that
gets read events, because a thread that handles them is enough to break a client
that is opened again (see Findings).  One opening suffices for that; with three and
no events, or two, no events and two lockers (4.5 million states), or one, events
and two lockers (6.5 million) the properties hold as well.  The code makes more
clients when none is available; here GetFreeNetworkClient waits.  `MaxOpens` bounds the
openings, and with them `serial`: when all is closed the system may stop, so
deadlock is not checked, and NoCrossedWait says what it would be about.

For message queues: 28 units hold three records of one size and not four, or records
of two sizes that leave each of the gaps the code tells apart, so that the ring wraps
in every position, with and without room; one message more than that is in flight.
`Lengths` is 32: a length may pass the end of the ring and be reduced.
For link queues: a ring of two places is full with one link, so that every call that
puts meets an expansion, and 3 links expand it twice, wrapped and not; an index of -3
or 2 is in the ring or beyond its other end; what rings of any size do is proved.  Two
threads are the creator and another, the deleter and another.  Rings are told apart by name only (symmetry).  For sets: a third block is
the first whose bias is not found in the last block of the chain; two units make a
block part full; the walk is in a block while others are added and emptied.  `CountMod`
stands for the 2^32 values of nUsed, which only the misuse by index brings below 0.

Fairness.  The operating system runs every thread that can run (WF of each step),
and a thread that is granted a section leaves it in the end (WF of LeaveCall: the
code between enter and leave returns).  XCHG on a flag is contended by threads
that yield after each try (Relinquish): a thread that finds the flag clear
again and again takes it once (SF of TakeFlag).  Nothing is assumed of timeouts:
SleepTimeout has no fairness, so CallsReturn does not rest on the 25 ms.  It is
stated for executions in which calls stop coming: with threads that enter for
ever a thread that queued may starve, because any thread may claim a free section
before it.  In Timers the same facts are assumed of each thread and of the time, and of
`cs_timer_change` that a thread that waits for it gets in when it stays free (WF of
EnterChange).  That is what one_section shows: a free section that nobody else claims
goes to the thread that is queued.  A thread that waits while others enter again and
again may starve, in Timers too, so that its CallsReturn is also stated for executions in
which calls stop coming; DueTimersFire needs nothing of the section, because the timer
thread does not enter it.
In MsgQueue every step of a thread that can be taken is taken (WF): readers call
again and again, and a sender that waits for room stores when there is room;
interrupts and expiry have no fairness.  LinkQueue, Sets and NetClient state no
liveness: the first waits for a spin lock only, the second for nothing; in NetClient
RemoveClientExx tries for two sections with no order among those who try, and may be
refused for ever while others go on locking the client.  What a close owes is stated
as invariants instead (PendingHasRecycler, NoCrossedWait).

## What is proved

CriticalSectionProofs proves, for any finite or infinite set of threads and
sections, any nesting and any depth, from the assumptions that 0, 1 and the
threads' IDs differ and that the named sections are sections:

| theorem | property |
|---|---|
| TypeCorrect | TypeOK |
| Exclusion | MutualExclusion |
| Refinement | ImplementsMutex: CriticalSection implements RecursiveMutex |
| ListIsChain | WaiterChain |
| BreaksUnreachable | NeverTraps |
| WakesArrive | NoLostWakeup |

The argument.  MutualExclusion is not inductive: between the steps of a call the
fields are in motion.  The invariant that is says who holds the flag (at most one
thread is at a place that has it), that what a thread saw in Look is still so
while it has the flag, that an owner is recorded exactly from its claim to the
second step of its last leave, and that the count is the entries it still owes.
For the list the invariant is the existence of an enumeration of the queued
threads from the head to the end, each thread's `prior` being the next; an
enqueue puts one before it, the head's claim takes the first off, and nothing
else touches it - a thread behind the head only ever defers.  No DebugBreak is
reached because each of its conditions contradicts the enumeration.  A wake is
not lost because a thread that sleeps found an owner after it had linked itself
in, and the thread that takes the ownership away remembers the head of the list
as it then is, before it lets go of the flag.

LinkRingProofs and LinkQueueProofs prove, for any set of threads, any links, any
number of blocks, any sizes of the rings and any setups:

| theorem | property |
|---|---|
| TypeCorrect | TypeOK: every ring is one, through every operation |
| NoFaultAlways | NoFault |
| NoLeakAlways | NoLeak |
| QueueImplementsDeque | ImplementsDeque: LinkQueue implements LinkDeque |
| LockIsReturnedAlways | LockIsReturned: whoever has the lock is at a place that gives it back |

The argument.  The lemmas about the ring say of each operation what the sequence of
its contents is before and after: a link put at the top is appended, also when the
top comes round; a ring expanded in two parts holds what it held, with the link that
did not fit at the end where it was to go.  The rest is about the pointer.  The
invariant, SafeInv, says that under a safe setup the pointer a thread read under the
lock is the pointer still, that the ring it leads to is allocated, that a thread at a
place outside the lock where it creates or frees is alone in what it does, and that no
other ring is allocated.  For a walk without the lock, WalkInv says that what is before
it is a ring itself: from its place to Top, whatever is taken at the bottom meanwhile, or
from Bottom to its place, when nothing is; and that the count that is left finds there
what the call is to return.  From there each step of LinkQueue is a step of LinkDeque
with the contents of the ring, or none.

SetsProofs proves, for any size of the blocks, any number of them and any walks:

| theorem | property |
|---|---|
| TypeCorrect | TypeOK |
| IndexLeadsBackAlways | IndexLeadsBack |
| UsedIsHeldAlways | UsedIsHeld |
| WalkMeetsAllAlways | WalkMeetsAll |

The argument.  The chain holds each block that was made once, and the block that was
made as the n-th has bias PerSet * (n - 1), at whichever end it was put, because the
blocks passed on the way include the one made last: an index therefore belongs to one
unit.  Bits and counts are in step with what the caller has as long as the set is used
by units, or has one block, whose index is its place.  For WalkMeetsAll (WalkInv), what
is still due is ahead of the walk, in a later block or at a later place of its own:
blocks are put at the ends of the chain and never between, so that neither end changes
which of two comes first.  ForEachSetMember also stops by a count: it has counted no more
units than it has passed, so that when the count is reached, all bits are behind it.
That the count is compared as a signed number is why half of `CountMod` must be more than
`PerSet`, which 2^32 is.

TimersProofs proves, for any timers, any clients in any roles, any delays and whatever
callbacks call:

| theorem | what it says |
|---|---|
| TypeCorrect | NoFault => TypeOK |
| InOnePlaceAlways | NoFault => InOnePlace: an allocated timer is in one place, until a record is used that is not there |
| AwayIsOverAlways | AwayIsOver, if one client adds and the counter holds 1 (OneAdder) |
| NoFaultAlways | NoFault, if no client reschedules or changes a timer (NoReschedule) and no callback removes one that is still in the slot |
| OnScheduleAlways | NoFault => OnSchedule, if one client adds and none reschedules or changes (Regular) |
| NeverEarlyAlways | NoFault => NeverEarly, if Regular |
| BoundedOversleepAlways | NoFault => BoundedOversleep, if Regular, wherever time passes |
| StopsFiringAlways | StopsFiring, if clients only add timers (OnlyAdding) |

Each hypothesis is needed, as TLC shows when the constants of a run are changed so that
it fails: OnSchedule with a rescheduler, with a changer or with two adders, NoFault with
any of the three that NoFaultAlways excludes, BoundedOversleep with a rescheduler or two
adders, StopsFiring with a remover, a rescheduler or a changer (Findings).  Where Regular holds
and nothing in the slot is removed, NoFault is itself a theorem, so that OnSchedule,
NeverEarly and BoundedOversleep need no other hypothesis.

The argument.  Four sets - the timers in the hands of adders, in the slot, in the list
and in the timer thread's hand - are disjoint and make up the pool, no two adders have
the same timer, and the list has each of its timers once; each step moves one timer
from one set to another, or makes or frees one.  The lemmas about the list say that
linking and unlinking, wherever the deltas put a timer, add and take out just that
one.  NoFault is needed: a timer that is removed while it is in no list is freed where
it is.  For AwayIsOver, the counter is 1 exactly while the one adder is between its
two updates, so that the thread, which waits for 0, finds it past its insertion.

For the rest the invariant says also (Sound) what each value may be, that the delta of a
timer outside the list is a delay and not below zero (Ready), that a timer whose removal
is asked for has left the hand of its adder and the slot (Settling), and which timer is
called back (Called).  The due times are sums over the list: Offset is a recursive
function, and that a sum up to a place depends on the deltas up to it, grows by the next
one, and is carried over when a timer is linked in or taken out, wherever a delta is
split, is shown with the least place at which it would not (lemma UpTo).  Scheduled is OnSchedule with the
delta of the timer that was grabbed, which is out of the list before last_tick is
advanced; AwayInv keeps the one adder from inserting between these two, which is where
two adders, or a rescheduler, break it.  For BoundedOversleep (Paced), the
first timer was not due at the tick the thread has read, nobody changes it or puts one
before it while the thread pauses (AwayInv), and the pause is the time from that tick to
the first timer: what has passed since that tick, `behind`, is what it sleeps too long.  For
StopsFiring (StopInv), a timer that a callback has removed is freed already, or is the
one that is called back and has bRemoved, which the thread reads before it puts it back;
nothing else writes the word of its flags, as nobody but callbacks reschedules.

NetClientProofs proves, for any number of clients and of threads that open, close,
lock and handle events, and for any clients that are open or available at first:

| theorem | what it says |
|---|---|
| TypeCorrect | TypeOK |
| HeldIsAlwaysMeant | HeldIsMeant |
| PendingAlwaysHasRecycler | PendingHasRecycler |
| OrderlyAlone | Orderly, and with it the invariant, if OpensAlone: nothing is opened, or one thread opens and closes and there are no events |
| ListsAlwaysIntact | NoTrap => ListsIntact, if OpensAlone: the lists are intact until the process ends |
| FreshIsAlwaysOpen | FreshIsOpen, if one thread opens and closes and there are no events, whatever threads that lock do |
| NeverCrossedWait | NoCrossedWait, if OpensAlone and one thread calls RemoveClient |
| SafeAlone | all of the above, if OpensAlone; and ListsIntact without NoTrap where there are no events |

TypeCorrect, HeldIsAlwaysMeant and PendingAlwaysHasRecycler are about the executions in
which closing and opening stay Orderly: a client that InternalRemoveClient is called for
is not opened meanwhile, a read event does not close a client that is active again
(NoLateClose), and while AddActive links a client in, no other thread links one in or is
about to take one out (UndisturbedOpen).  The code does not see to either: a read event
may come late (network_linux.c:453-468) and AddActive is called without csNetwork
(udpnetwork.c:144), and then ListsIntact, FreshIsOpen and NoCrossedWait do fail
(Findings).  These three are therefore theorems about who calls what, and not about
executions: OrderlyAlone shows that where one thread opens and closes and there are no
events, or where nothing is opened, whatever the number of threads that close, lock and
handle events, no state is disorderly, and the three follow for every such instance.  The
instance of net_clients, with an event and one thread that opens once and closes, is
neither; TLC checks it.

The argument.  NetListsProofs shows that the links are those of three sequences of
clients, none of them at two places (Arranged): GrabClient takes a place out of one and
the others stay, the three Add functions put a place before the first, and following
`next` from the head of a list meets its sequence and then NULL.  That the walk ends is
shown with a least place at which it would differ.  The invariant, Inv, is about
the threads: each section has the owner that the calls under way say it has, as often
as they say; a call that is between two steps under csNetwork has csNetwork, and one
that has locked a client is among its owners; what a call remembers of a client (that
it is active, being closed, its serial) is still so, as long as the call is at a place
where it relies on it; a client is in the list of its flag, unless it was just given
out; recyclePending is set only of a closed client, and then somebody holds a section
of it or is about to look.  It takes all of them together: HeldIsMeant needs that a
client is recycled only when both its sections are free, which needs who owns them,
which needs which calls are at which places.

MsgQueueProofs proves, for any writers and readers, any IDs, any set of sizes of the
messages that fit four times into the ring, any sizes of the ring that are less than
`Lengths`, of the header and of the list of waiters:

| theorem | what it says |
|---|---|
| TypeCorrect | TypeOK |
| RingIsAlwaysChained | RingIsChained |
| OneSizeNeverBreaks | OneSizeIsSafe |
| NeverMissed | NoMissedMessage, if no two readers that may sleep ask for the same ID (DisjointWaits) |
| Implements | ImplementsChannel: MsgQueue implements MessageChannel |

The argument.  All that a scan does - taking what was read off the bottom, joining runs
of it elsewhere, as far as one record or the end - leaves a ring that is Derived from
the one before: some of its records, in their order, each at its place, among them all
that are unread, with such lengths that each leads to the next.  Which ones is counted by their number, not followed from one to the
next: Nth(K, n) is the n-th of the places K, and the only way to count them in their
order, which is what a least place at which another way would differ shows.  RingIsChained is
inductive with it, and the messages of what is Derived are the same, which is most of
Implements; a message that is taken is then the one the channel takes, since a count of
the unread records that is without the n-th is the sequence without its n-th.

For OneSizeNeverBreaks the invariant, Laid, is more than the property: when all messages
have one length, every record, joined or not, is at a multiple of it; from Bottom round
to Top they come in their order, and none is at Top.  From there the three tests of
EnqueMsgEx agree: Bottom is a multiple as well, so that it is either beyond the end of
the new record or before its place, and the test of PastEnd, which compares Bottom with
a size without the header, makes no difference.  For NeverMissed the invariant says
that who sleeps is on the list of waiters with the ID that it asks for, or its wake is
under way.  DisjointWaits is what msgsvr does: a queue has one thread of a process that
sleeps, and it asks for the ID of that process (client_input.c:32 and 341,
client_events.c:174, client_service.c:119); two that ask for the same miss messages
(Findings).

Only model-checked: SendersReturn, ReadersWake, CallsReturn and the rest of liveness,
which is out of the prover's reach; clients where there are both openers and events; and
the two properties that fail (Findings).  Every invariant and every action property that a
passing run checks is also a theorem, under the hypotheses of the tables.  The library's
induction theorems take an operator as a parameter, which the provers cannot instantiate:
where a proof needs an induction, over the places of a list or of a ring, it takes the
least one that is an exception instead.

## Findings

Runs that fail, each on something the repository says of itself:

* remove_hangs.  RemoveTimer of a one shot timer that has run leaves `del_timer`
  set, since the thread does not look at it while there is no timer
  (timers.c:1857); the next RemoveTimer waits for ever, with `cs_timer_change` held.
* available_locked.  The deferred recycle is to guarantee that an available client
  is not locked (network.c:1385-1388), but sections are entered without csNetwork,
  so one may be entered between the look at them and the recycle.  If the holder
  has not unlocked when GetFreeNetworkClient comes, the client is taken off the
  list and is in none any more (GetLost).

The models show more, for which there is no run; each is a property that fails when
the constants of a run are changed as said:

* AwayIsOver with two `Adders`: `insert_while_away_count` is a count so that two
  inserting threads do not hide one another (timers.c:193-195), but it is incremented
  and decremented without a lock (timers.c:1733).
* The thread sleeps past the time of its first timer when callbacks take time: the time
  slept is measured from before the callbacks (timers.c:2074), so a periodic timer runs
  late by what its callback took.  BoundedOversleep says that it is late by no more.
* StopsFiring with `Removers` in timer_callbacks: RemoveTimer by another thread
  only notes the timer, which may be called back once more after it returned.
  timers.h:172-173 says so.
* StopsFiring with `Reschedulers` or `Changers` and callbacks that stop their timer:
  the other thread writes the word of the flags back (timers.c:2303) over
  bRemoved (timers.c:2231), and the timer runs again.
* NoFault with `PendingRemoval`: a callback that removes a timer still in the slot
  finds its record in the pool and follows its NULL `me` (timers.c:1711).
* OnSchedule with `Reschedulers`: a timer is taken out under csGrab and last_tick
  is advanced after it (timers.c:1959); between the two the deltas are off by one
  timer's, and what is inserted then is early or late by it.
* NeverEarly with `Changers`: ChangeTimerEx reads the head of the list before it
  enters csGrab (timers.c:2410) and may change a timer that is being dispatched,
  after which last_tick moves by the wrong amount, again at each dispatch.
* BoundedOversleep with two `Adders` or with `Reschedulers`: the time to sleep is
  computed from a delta read without csGrab.
* A periodic timer drifts: it is put back relative to the time it was put back
  and not to the time it was due, where timers.c:2037 says "timer alwyas goes +1
  frequency from its base tick".
* ListsIntact with a closer that is not the opener: AddActive is called without
  csNetwork (udpnetwork.c:144), and a close that takes the head out of the list at
  the same time leaves the list cut, or a NULL that is followed.  network.c:970
  means csNetwork to "protect all structures".
* FreshIsOpen with `MaxOpens` = 2: a read event that found a client closed, without
  its channel, waits for csNetwork, and closes and recycles the client though it has
  been opened again (network_linux.c:453-468).
* NoTrap with events and a closer of the same client: a read event that did not get
  its channel, because the client is being closed, goes on when it finds the client
  closed, and unlocks the channel when it then finds the socket gone
  (network_linux.c:446): a DebugBreak.
* NoCrossedWait with two `Closers` of one client: one waits with csNetwork for the
  client's sections, the other the other way round (network.c:1566-1568, whose order
  tcpnetwork.c:67-74 describes).
* A client whose sections RemoveClientExx does not get at the end (its STRANDED
  message, network.c:1704-1709, or without a message when the first is refused) stays
  in ClosedClients with its socket open, unless another event comes for it.
* From reading, not modelled: an open that fails calls InternalRemoveClientEx
  without csNetwork (udpnetwork.c:66, 97), which after a failed bind leaves the
  client in ClosedClients for ever and after a failed socket() in no list.
* NeverOverwritten in msg_ring (with messages of two sizes): a message that goes to
  the origin of the ring is stored when Bottom is greater than its size without the
  header (msgqueue.c:547), and whether Top is below Bottom already is not asked,
  neither there nor when the record ends where the ring does (msgqueue.c:525).  It is
  stored over messages that were not read, though msgqueue.c:540-542 means to wait for
  enough space.  OneSizeIsSafe is what holds.
* The length of a read record that marks the end of the ring grows with every scan that
  finds read records at the origin (msgqueue.c:896), until ACTUAL_LEN_MASK reduces it and
  the carry is in the bits above.  RingIsChained says what holds all the same: only such a
  record is longer than what is left of the ring.  LogBinary (msgqueue.c:841) reads
  by that length once the time of the record has passed.
* SendersReturn with `Places` = 1 or a reader whose buffer is too small: the section
  is kept for ever (msgqueue.c:769, 990).  NoMissedMessage with two readers of one ID:
  the first that wakes takes the other off the list (msgqueue.c:795).  A reader of any
  message that is interrupted is never taken off the list.
* ForEachMeetsEach in sets: ForEachSetMember is to perform "an iteration over each
  allocated set member" (sack_typelib.h:1417), but counts indexes in the order of the
  chain and from where it stopped in each block (sets.c:624), and stops early when its
  callback deletes.
* From reading: GetLinearSetArrayEx begins again at 0 for each block (sets.c:471), so
  with two blocks it returns the last one's units and what was in memory.
  DoRemoveTimer passes the address of the pointer to the set, not the set
  (timers.c:1696).
* In CriticalSection, a try may answer -1, neither entered nor refused
  (NoWaitBusy).  OpenSpaceExx (sharemem.c:1138) takes it for entered.

## Plan

Done: CriticalSection, LinkQueue and MsgQueue with their refinements and proofs; Sets,
Timers and NetClient with their proofs.

Next modules, in this order:

1. NetClient, the rest: opens that fail, TCP (connect and its timeout, accept,
   pending writes, bWriteOnUnlock, CF_TOCLOSE, the close that begins with a
   shutdown and ends in an event), as a module that extends NetClient.
   Property: a close ends in a recycle, whatever is pending.
2. LinkList, whose first adder releases a lock it does not hold (typecode.c:152).
3. ThreadRecords over Sets: records and their reuse, wake by ID, Idle; the start of
   the timer thread by two first callers.
4. OpenSpace and Heap: regions, blocks, counts of holders.
5. MsgQueue's creation and deletion by two processes; msgsvr on top of it.
6. WebSocket, Deadstart, VirtualFileSystem, as far as they can be reduced to their
   control.

Runs stay few: at most one for safety, one for liveness and one for a finding per
module.  Theorems to come are those of the next modules, and those of NetClient for
an opener beside events of other clients, as in net_clients.

## Not modelled

* The other components of the table, until their turn in the plan; PROJECT.json
  gives the reason for each.
* Of critical sections: Windows' native ones, the debug logs, sections in memory
  shared with a process that dies.
* Of timers: RescheduleTimer without a delay, StopTimers at exit, the pause of
  the display, the choice and wrap of IDs, the start of the timer thread, Idle
  called from a callback.
* Of network clients: TCP, write events, opens that fail, closes that block the
  notice, NetworkQuit, other platforms.
* Of message queues, link queues and sets: what their sections above leave out.
* Weak memory: x86-64 keeps the order of stores, but a store may pass a later
  load of another word; the locked exchanges are the only fences.
