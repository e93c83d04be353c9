--------------------------- MODULE CriticalSection ---------------------------
(***************************************************************************)
(* The CRITICALSECTION of SACK (src/include/sharemem.h): a recursive lock  *)
(* built from a spin flag, an owner, a count, and a list of waiters whose  *)
(* links are spread over the stacks of the threads that wait.              *)
(*                                                                         *)
(*   EnterCriticalSecNoWaitEx, LeaveCriticalSecNoWakeEx  memlib/sharemem.c *)
(*   EnterCriticalSecEx, LeaveCriticalSecEx              timerlib/timers.c *)
(*                                                                         *)
(* dwThreadWaiting is the head of the list: the last thread that queued.   *)
(* Each queued thread keeps in its local `prior' the thread it found       *)
(* there, or 1 (EndOfChain) when it found none; 0 (NoThread) in `prior'    *)
(* says that the thread is not queued.  The thread at the head sleeps on   *)
(* its "sack.critsec" event, which all the sections share, and the last    *)
(* leave wakes it after the section has been released.                     *)
(*                                                                         *)
(* Grain: under the flag an enter looks at the section in one step and     *)
(* acts on what it saw, up to the release of the flag, in another; a leave *)
(* decrements the count in one step and gives up the ownership in another. *)
(* The read of dwThreadID that decides to sleep and the wake that follows  *)
(* a leave are made without the flag and are steps of their own.           *)
(***************************************************************************)
EXTENDS Naturals, FiniteSets

CONSTANTS
  Threads,         \* the threads of the process
  Sections,        \* the critical sections they share
  PolledSections,  \* those used as GrabMemEx and DropMemEx use a heap's: entered
                   \* by polling with prior NULL, left without a wake
  TriedSections,   \* those tried with prior NULL but left with a wake, as
                   \* csNetwork is
  Nesting,         \* <<r, s>> is in it: s may be entered by an owner of r
  MaxDepth,        \* bound: entries of one section a thread may hold
  NoThread,        \* the THREAD_ID 0
  EndOfChain       \* the THREAD_ID 1, the end of the list of waiters

ASSUME ThreadsAssumption ==
  /\ NoThread \notin Threads
  /\ EndOfChain \notin Threads
  /\ NoThread # EndOfChain
ASSUME SectionsAssumption ==
  /\ Sections # {}
  /\ PolledSections \subseteq Sections
  /\ TriedSections \subseteq Sections
  /\ Nesting \subseteq Sections \X Sections
ASSUME DepthAssumption == MaxDepth \in Nat \ {0}

VARIABLES
  dwUpdating,       \* [section] the spin flag
  dwLocks,          \* [section] how many times its owner has entered it
  dwThreadID,       \* [section] the owner, or NoThread
  dwThreadWaiting,  \* [section] the head of the list of waiters, or NoThread
  event,            \* [thread] its "sack.critsec" event is set
  pc,               \* [thread] where it stands in a call
  section,          \* [thread] the section the call is about
  queues,           \* [thread] the call passes a prior: it is an EnterCriticalSecEx
  prior,            \* [thread] the local variable of EnterCriticalSecEx
  dwWaiting,        \* [thread] the local variable of LeaveCriticalSecEx
  held,             \* [thread][section] entries granted to it and not yet given up
  trap              \* a DebugBreak has been executed

lockVars   == <<dwUpdating, dwLocks, dwThreadID, dwThreadWaiting>>
threadVars == <<pc, section, queues, prior, dwWaiting>>
vars       == <<lockVars, event, threadVars, held, trap>>

PCs == {"idle",                \* in no call
        "enter", "looking",    \* wants the flag; has it
        "free", "owner",       \* has the flag, found no owner; found itself
        "barred",              \* has the flag, found another thread
        "refused", "asleep",   \* was not let in; sleeps on its event
        "leave", "leaving",    \* wants the flag; has it
        "releasing",           \* has the flag, and the count is down to zero
        "wake"}                \* has left, and has still to wake a waiter

ThreadOrNone == Threads \cup {NoThread}

TypeOK ==
  /\ dwUpdating \in [Sections -> BOOLEAN]
  /\ dwLocks \in [Sections -> Nat]
  /\ dwThreadID \in [Sections -> ThreadOrNone]
  /\ dwThreadWaiting \in [Sections -> ThreadOrNone]
  /\ event \in [Threads -> BOOLEAN]
  /\ pc \in [Threads -> PCs]
  /\ section \in [Threads -> Sections]
  /\ queues \in [Threads -> BOOLEAN]
  /\ prior \in [Threads -> ThreadOrNone \cup {EndOfChain}]
  /\ dwWaiting \in [Threads -> ThreadOrNone]
  /\ held \in [Threads -> [Sections -> Nat]]
  /\ trap \in BOOLEAN

AnySection == CHOOSE s \in Sections : TRUE

\* InitializeCriticalSec zeroes a section.
Init ==
  /\ dwUpdating = [s \in Sections |-> FALSE]
  /\ dwLocks = [s \in Sections |-> 0]
  /\ dwThreadID = [s \in Sections |-> NoThread]
  /\ dwThreadWaiting = [s \in Sections |-> NoThread]
  /\ event = [t \in Threads |-> FALSE]
  /\ pc = [t \in Threads |-> "idle"]
  /\ section = [t \in Threads |-> AnySection]
  /\ queues = [t \in Threads |-> FALSE]
  /\ prior = [t \in Threads |-> NoThread]
  /\ dwWaiting = [t \in Threads |-> NoThread]
  /\ held = [t \in Threads |-> [s \in Sections |-> 0]]
  /\ trap = FALSE

-----------------------------------------------------------------------------
(***************************************************************************)
(* Entering.                                                               *)
(***************************************************************************)

Goto(t, to) == pc' = [pc EXCEPT ![t] = to]

\* The client may enter s again, or enter it inside the sections that precede it.
MayEnter(t, s) ==
  /\ held[t][s] < MaxDepth
  /\ \A r \in Sections \ {s} : held[t][r] > 0 => <<r, s>> \in Nesting

\* EnterCriticalSecEx begins with prior = 0.
EnterCall(t, s) ==
  /\ pc[t] = "idle"
  /\ s \notin PolledSections
  /\ MayEnter(t, s)
  /\ Goto(t, "enter")
  /\ section' = [section EXCEPT ![t] = s]
  /\ queues' = [queues EXCEPT ![t] = TRUE]
  /\ prior' = [prior EXCEPT ![t] = NoThread]
  /\ UNCHANGED <<lockVars, event, dwWaiting, held, trap>>

\* EnterCriticalSecNoWaitEx( pcs, NULL ).
NoWaitCall(t, s) ==
  /\ pc[t] = "idle"
  /\ s \in TriedSections \cup PolledSections
  /\ MayEnter(t, s)
  /\ Goto(t, "enter")
  /\ section' = [section EXCEPT ![t] = s]
  /\ queues' = [queues EXCEPT ![t] = FALSE]
  /\ UNCHANGED <<lockVars, event, prior, dwWaiting, held, trap>>

\* (Mutation) The exchange is not atomic: the flag is taken when it is set.
TakeFlagAnyway(t) ==
  /\ pc[t] = "enter"
  /\ dwUpdating' = [dwUpdating EXCEPT ![section[t]] = TRUE]
  /\ Goto(t, "looking")
  /\ UNCHANGED <<dwLocks, dwThreadID, dwThreadWaiting, event, section, queues,
                 prior, dwWaiting, held, trap>>

\* XCHG finds the flag clear and sets it.  When it is set a thread that queues
\* yields and tries again, which changes nothing.
TakeFlag(t) ==
  /\ pc[t] = "enter"
  /\ ~dwUpdating[section[t]]
  /\ dwUpdating' = [dwUpdating EXCEPT ![section[t]] = TRUE]
  /\ Goto(t, "looking")
  /\ UNCHANGED <<dwLocks, dwThreadID, dwThreadWaiting, event, section, queues,
                 prior, dwWaiting, held, trap>>

\* XCHG finds the flag set: -1 for a caller that does not queue.
NoWaitBusy(t) ==
  /\ pc[t] = "enter"
  /\ ~queues[t]
  /\ dwUpdating[section[t]]
  /\ Goto(t, "idle")
  /\ UNCHANGED <<lockVars, event, section, queues, prior, dwWaiting, held, trap>>

\* (Mutation) A section that is locked is taken for the caller's own.
LookOnlyAtCount(t) ==
  /\ pc[t] = "looking"
  /\ Goto(t, IF dwLocks[section[t]] = 0 THEN "free" ELSE "owner")
  /\ UNCHANGED <<lockVars, event, section, queues, prior, dwWaiting, held, trap>>

\* With the flag, the caller looks who owns the section.
Look(t) ==
  /\ pc[t] = "looking"
  /\ Goto(t, IF dwLocks[section[t]] = 0 THEN "free"
             ELSE IF dwThreadID[section[t]] = t THEN "owner" ELSE "barred")
  /\ UNCHANGED <<lockVars, event, section, queues, prior, dwWaiting, held, trap>>

HasPrior(t) == queues[t] /\ prior[t] # NoThread

\* Return 1: the caller may go on.
Granted(t) ==
  /\ dwUpdating' = [dwUpdating EXCEPT ![section[t]] = FALSE]
  /\ Goto(t, "idle")
  /\ held' = [held EXCEPT ![t][section[t]] = @ + 1]
  /\ UNCHANGED <<event, section, queues, dwWaiting>>

Claim(t) ==
  /\ dwThreadID' = [dwThreadID EXCEPT ![section[t]] = t]
  /\ dwLocks' = [dwLocks EXCEPT ![section[t]] = 1]
  /\ Granted(t)

\* Return 0: a queueing caller goes on to look at the owner, the other gives up.
Refused(t) ==
  /\ dwUpdating' = [dwUpdating EXCEPT ![section[t]] = FALSE]
  /\ Goto(t, IF queues[t] THEN "refused" ELSE "idle")
  /\ UNCHANGED <<dwLocks, dwThreadID, event, section, queues, dwWaiting, held>>

\* The section is free and nobody waits for it.
ClaimFree(t) ==
  LET s == section[t] IN
  /\ pc[t] = "free"
  /\ dwThreadWaiting[s] = NoThread
  /\ Claim(t)
  /\ trap' = (trap \/ (HasPrior(t) /\ prior[t] # EndOfChain))
  /\ UNCHANGED <<dwThreadWaiting, prior>>

\* (Mutations) The head unlinks itself without restoring the thread before it,
\* or restores the end of the list as if it were a thread.
ClaimDropsRest(t) ==
  LET s == section[t] IN
  /\ pc[t] = "free"
  /\ dwThreadWaiting[s] = t
  /\ Claim(t)
  /\ dwThreadWaiting' = [dwThreadWaiting EXCEPT ![s] = NoThread]
  /\ prior' = IF HasPrior(t) THEN [prior EXCEPT ![t] = NoThread] ELSE prior
  /\ UNCHANGED trap

ClaimKeepsEnd(t) ==
  LET s == section[t] IN
  /\ pc[t] = "free"
  /\ dwThreadWaiting[s] = t
  /\ Claim(t)
  /\ dwThreadWaiting' = [dwThreadWaiting EXCEPT ![s] = prior[t]]
  /\ prior' = IF HasPrior(t) THEN [prior EXCEPT ![t] = NoThread] ELSE prior
  /\ UNCHANGED trap

\* The section is free and the caller is the head of the list: it unlinks itself.
ClaimAsHead(t) ==
  LET s == section[t] IN
  /\ pc[t] = "free"
  /\ dwThreadWaiting[s] = t
  /\ Claim(t)
  /\ dwThreadWaiting' = [dwThreadWaiting EXCEPT ![s] =
       IF HasPrior(t) /\ prior[t] # EndOfChain THEN prior[t] ELSE NoThread]
  /\ prior' = IF HasPrior(t) THEN [prior EXCEPT ![t] = NoThread] ELSE prior
  /\ UNCHANGED trap

\* The section is free, others wait, and the caller is not one of them: it goes first.
ClaimPastWaiters(t) ==
  LET s == section[t] IN
  /\ pc[t] = "free"
  /\ dwThreadWaiting[s] \notin {NoThread, t}
  /\ ~HasPrior(t)
  /\ Claim(t)
  /\ UNCHANGED <<dwThreadWaiting, prior, trap>>

\* The section is free but the caller is queued behind the head.
Defer(t) ==
  LET s == section[t] IN
  /\ pc[t] = "free"
  /\ dwThreadWaiting[s] \notin {NoThread, t}
  /\ HasPrior(t)
  /\ Refused(t)
  /\ UNCHANGED <<dwThreadWaiting, prior, trap>>

\* The caller owns the section already.
Reenter(t) ==
  LET s == section[t] IN
  /\ pc[t] = "owner"
  /\ dwLocks' = [dwLocks EXCEPT ![s] = @ + 1]
  /\ Granted(t)
  /\ UNCHANGED <<dwThreadID, dwThreadWaiting, prior, trap>>

\* Another thread owns the section: the caller links itself at the head of the list.
Enqueue(t) ==
  LET s == section[t] IN
  /\ pc[t] = "barred"
  /\ queues[t]
  /\ prior[t] = NoThread
  /\ dwThreadWaiting[s] # t
  /\ prior' = [prior EXCEPT ![t] =
       IF dwThreadWaiting[s] = NoThread THEN EndOfChain ELSE dwThreadWaiting[s]]
  /\ dwThreadWaiting' = [dwThreadWaiting EXCEPT ![s] = t]
  /\ Refused(t)
  /\ UNCHANGED trap

\* Another thread owns the section and the caller has nothing to link.  Queued
\* behind the head it breaks when the list is empty ("Someone stole the
\* critical section"), and then links itself, or when the head is the thread
\* it found there, and then forgets it.
StayOut(t) ==
  LET s == section[t]
      w == dwThreadWaiting[s]
      behind == HasPrior(t) /\ w # t
  IN
  /\ pc[t] = "barred"
  /\ queues[t] => prior[t] # NoThread \/ w = t
  /\ trap' = (trap \/ (behind /\ w \in {NoThread, prior[t]}))
  /\ dwThreadWaiting' = IF behind /\ w = NoThread
                        THEN [dwThreadWaiting EXCEPT ![s] = t] ELSE dwThreadWaiting
  /\ prior' = IF behind /\ w = prior[t]
              THEN [prior EXCEPT ![t] = NoThread] ELSE prior
  /\ Refused(t)

\* "a quick check says there is a thread owning it; so go to sleep for a bit".
CheckOwner(t) ==
  /\ pc[t] = "refused"
  /\ Goto(t, IF dwThreadID[section[t]] # NoThread THEN "asleep" ELSE "enter")
  /\ UNCHANGED <<lockVars, event, section, queues, prior, dwWaiting, held, trap>>

\* The event is set: the sleep takes it and ends.
WokenUp(t) ==
  /\ pc[t] = "asleep"
  /\ event[t]
  /\ event' = [event EXCEPT ![t] = FALSE]
  /\ Goto(t, "enter")
  /\ UNCHANGED <<lockVars, section, queues, prior, dwWaiting, held, trap>>

\* 25 milliseconds have passed.
SleepTimeout(t) ==
  /\ pc[t] = "asleep"
  /\ ~event[t]
  /\ Goto(t, "enter")
  /\ UNCHANGED <<lockVars, event, section, queues, prior, dwWaiting, held, trap>>

-----------------------------------------------------------------------------
(***************************************************************************)
(* Leaving.                                                                *)
(***************************************************************************)

\* LeaveCriticalSecEx, or LeaveCriticalSecNoWakeEx of a polled section.
LeaveCall(t, s) ==
  /\ pc[t] = "idle"
  /\ held[t][s] > 0
  /\ held' = [held EXCEPT ![t][s] = @ - 1]
  /\ Goto(t, "leave")
  /\ section' = [section EXCEPT ![t] = s]
  /\ UNCHANGED <<lockVars, event, queues, prior, dwWaiting, trap>>

TakeFlagToLeave(t) ==
  /\ pc[t] = "leave"
  /\ ~dwUpdating[section[t]]
  /\ dwUpdating' = [dwUpdating EXCEPT ![section[t]] = TRUE]
  /\ Goto(t, "leaving")
  /\ UNCHANGED <<dwLocks, dwThreadID, dwThreadWaiting, event, section, queues,
                 prior, dwWaiting, held, trap>>

\* The count goes down, if the caller owns the section; it breaks if not.
LeaveOnce(t) ==
  LET s == section[t]
      owned == dwLocks[s] > 0 /\ dwThreadID[s] = t
      last == owned /\ dwLocks[s] = 1
  IN
  /\ pc[t] = "leaving"
  /\ trap' = (trap \/ ~owned)
  /\ dwLocks' = IF owned THEN [dwLocks EXCEPT ![s] = @ - 1] ELSE dwLocks
  /\ dwUpdating' = IF last THEN dwUpdating ELSE [dwUpdating EXCEPT ![s] = FALSE]
  /\ Goto(t, IF last THEN "releasing" ELSE "idle")
  /\ UNCHANGED <<dwThreadID, dwThreadWaiting, event, section, queues, prior,
                 dwWaiting, held>>

\* (Mutation) Every section is left as DropMemEx leaves a heap's: without a wake.
LeaveLastNoWake(t) ==
  LET s == section[t] IN
  /\ pc[t] = "releasing"
  /\ dwThreadID' = [dwThreadID EXCEPT ![s] = NoThread]
  /\ dwUpdating' = [dwUpdating EXCEPT ![s] = FALSE]
  /\ Goto(t, "idle")
  /\ UNCHANGED <<dwLocks, dwThreadWaiting, event, section, queues, prior,
                 dwWaiting, held, trap>>

\* The last leave releases the section and remembers whom to wake.
LeaveLast(t) ==
  LET s == section[t]
      wakes == dwThreadWaiting[s] # NoThread /\ s \notin PolledSections
  IN
  /\ pc[t] = "releasing"
  /\ dwThreadID' = [dwThreadID EXCEPT ![s] = NoThread]
  /\ dwUpdating' = [dwUpdating EXCEPT ![s] = FALSE]
  /\ dwWaiting' = IF wakes THEN [dwWaiting EXCEPT ![t] = dwThreadWaiting[s]]
                  ELSE dwWaiting
  /\ Goto(t, IF wakes THEN "wake" ELSE "idle")
  /\ UNCHANGED <<dwLocks, dwThreadWaiting, event, section, queues, prior, held, trap>>

\* WakeNamedThreadSleeper: the event is binary, waking twice is waking once.
WakeWaiter(t) ==
  /\ pc[t] = "wake"
  /\ event' = [event EXCEPT ![dwWaiting[t]] = TRUE]
  /\ dwWaiting' = [dwWaiting EXCEPT ![t] = NoThread]
  /\ Goto(t, "idle")
  /\ UNCHANGED <<lockVars, section, queues, prior, held, trap>>

-----------------------------------------------------------------------------
Call(t) == \E s \in Sections : EnterCall(t, s) \/ NoWaitCall(t, s)

Decide(t) ==
  \/ ClaimFree(t) \/ ClaimAsHead(t) \/ ClaimPastWaiters(t) \/ Defer(t)
  \/ Reenter(t)
  \/ Enqueue(t) \/ StayOut(t)

Leave(t) == LeaveOnce(t) \/ LeaveLast(t)

Next ==
  \E t \in Threads :
    \/ Call(t)
    \/ TakeFlag(t) \/ NoWaitBusy(t) \/ Look(t) \/ Decide(t)
    \/ CheckOwner(t) \/ WokenUp(t) \/ SleepTimeout(t)
    \/ \E s \in Sections : LeaveCall(t, s)
    \/ TakeFlagToLeave(t) \/ Leave(t) \/ WakeWaiter(t)

Spec == Init /\ [][Next]_vars

(***************************************************************************)
(* A thread that runs keeps running; a thread that is granted a section    *)
(* leaves it in the end; and of two threads that exchange on one flag, each *)
(* yielding when it loses (Relinquish), neither loses for ever.  Nothing   *)
(* is assumed of the 25 ms timeout: it may never fire.                     *)
(***************************************************************************)
Fairness ==
  \A t \in Threads :
    /\ SF_vars(TakeFlag(t)) /\ SF_vars(TakeFlagToLeave(t))
    /\ WF_vars(NoWaitBusy(t)) /\ WF_vars(Look(t)) /\ WF_vars(Decide(t))
    /\ WF_vars(CheckOwner(t)) /\ WF_vars(WokenUp(t)) /\ WF_vars(Leave(t)) /\ WF_vars(WakeWaiter(t))
    /\ \A s \in Sections : WF_vars(LeaveCall(t, s))

FairSpec == Spec /\ Fairness
-----------------------------------------------------------------------------
(***************************************************************************)
(* Properties.                                                             *)
(***************************************************************************)

\* A section is exclusive: the thread that was granted it, or that is on its
\* way out of it, is the owner the section records, and the section counts
\* exactly the entries that thread has not yet given back.
Entries(t, s) == held[t][s] + IF pc[t] \in {"leave", "leaving"} /\ section[t] = s THEN 1 ELSE 0

MutualExclusion ==
  \A s \in Sections :
    /\ dwThreadID[s] = NoThread => dwLocks[s] = 0
    /\ \A t \in Threads :
         Entries(t, s) = IF dwThreadID[s] = t THEN dwLocks[s] ELSE 0

Entering == {"enter", "looking", "free", "owner", "barred", "refused", "asleep"}

\* The threads that have linked themselves into the list of section s.
Queued(s) ==
  {t \in Threads : /\ pc[t] \in Entering
                   /\ section[t] = s
                   /\ HasPrior(t)}

\* order lists the n threads queued for s, from the head to the first that came.
IsChain(s, n, order) ==
  /\ \A q \in Queued(s) : \E i \in 1..n : order[i] = q
  /\ \A i, j \in 1..n : order[i] = order[j] => i = j
  /\ \A i \in 1..n : prior[order[i]] = IF i = n THEN EndOfChain ELSE order[i + 1]
  /\ dwThreadWaiting[s] = IF n = 0 THEN NoThread ELSE order[1]

\* No waiter is dropped from a list or linked into it twice: starting at
\* dwThreadWaiting and following `prior' from stack to stack meets each queued
\* thread once and ends at EndOfChain, whatever barging, polling and claiming
\* have been done by others between the updates.
WaiterChain ==
  \A s \in Sections :
    LET n == Cardinality(Queued(s))
    IN  \E order \in [1..n -> Queued(s)] : IsChain(s, n, order)

\* No wake is lost: when a section is free and threads are queued for it, the
\* one at the head is up, or its event is set, or the thread that released the
\* section is about to set it.  (The code sleeps 25 ms at most because
\* "infinite can fail on short locks", timers.c:2444: not for this reason.)
NoLostWakeup ==
  \A s \in Sections \ PolledSections :
    dwThreadID[s] = NoThread /\ dwThreadWaiting[s] # NoThread =>
      LET w == dwThreadWaiting[s] IN
      \/ pc[w] \in Entering \ {"asleep"}
      \/ event[w]
      \/ \E t \in Threads : pc[t] = "wake" /\ dwWaiting[t] = w

\* The states the code calls impossible are: no DebugBreak of the enter or
\* leave functions is reached by threads that leave what they entered.
NeverTraps == ~trap

\* The section implements a recursive mutex for its users.
Mutex == INSTANCE RecursiveMutex WITH depth <- held
ImplementsMutex == Mutex!Spec

\* Once no thread makes a new call, every thread that is inside a call returns:
\* none is left behind in a list, although only the head of a list is ever
\* woken and nothing is assumed of the 25 ms timeout.
CallsReturn ==
  (<>[][\A t \in Threads : ~Call(t)]_vars)
    => \A t \in Threads : pc[t] # "idle" ~> pc[t] = "idle"
=============================================================================
