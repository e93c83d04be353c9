------------------------ MODULE CriticalSectionProofs ------------------------
(***************************************************************************)
(* Theorems about CriticalSection, for any number of threads and sections, *)
(* any nesting and any depth.                                              *)
(***************************************************************************)
EXTENDS CriticalSection, TLAPS, FiniteSetTheorems

\* The variables of a critical section, of the threads' calls and of their
\* clients always have values of their types.
THEOREM TypeCorrect == Spec => []TypeOK
<1>1. Init => TypeOK
  <2>1. AnySection \in Sections
    BY SectionsAssumption DEF AnySection
  <2> SUFFICES ASSUME Init PROVE TypeOK
    OBVIOUS
  <2>2. /\ held \in [Threads -> [Sections -> Nat]]
        /\ section \in [Threads -> Sections]
    BY <2>1 DEF Init
  <2>3. /\ pc \in [Threads -> PCs]
        /\ prior \in [Threads -> ThreadOrNone \cup {EndOfChain}]
        /\ dwWaiting \in [Threads -> ThreadOrNone]
    BY DEF Init, ThreadOrNone, PCs
  <2>4. /\ dwUpdating \in [Sections -> BOOLEAN]
        /\ dwLocks \in [Sections -> Nat]
        /\ dwThreadID \in [Sections -> ThreadOrNone]
        /\ dwThreadWaiting \in [Sections -> ThreadOrNone]
    BY DEF Init, ThreadOrNone
  <2>5. /\ event \in [Threads -> BOOLEAN]
        /\ queues \in [Threads -> BOOLEAN]
        /\ trap \in BOOLEAN
    BY DEF Init
  <2> QED BY <2>2, <2>3, <2>4, <2>5 DEF TypeOK
<1>2. TypeOK /\ [Next]_vars => TypeOK'
  <2> SUFFICES ASSUME TypeOK, [Next]_vars PROVE TypeOK'
    OBVIOUS
  <2> USE ThreadsAssumption, SectionsAssumption
      DEF TypeOK, ThreadOrNone, PCs, lockVars, Goto
  <2>1. ASSUME NEW t \in Threads, Call(t) PROVE TypeOK'
    <3> PICK s \in Sections : EnterCall(t, s) \/ NoWaitCall(t, s)
      BY <2>1 DEF Call
    <3>1. CASE EnterCall(t, s)
      BY <3>1 DEF EnterCall
    <3>2. CASE NoWaitCall(t, s)
      BY <3>2 DEF NoWaitCall
    <3> QED BY <3>1, <3>2
  <2>2. ASSUME NEW t \in Threads, TakeFlag(t) PROVE TypeOK'
    BY <2>2 DEF TakeFlag
  <2>3. ASSUME NEW t \in Threads, NoWaitBusy(t) PROVE TypeOK'
    BY <2>3 DEF NoWaitBusy
  <2>4. ASSUME NEW t \in Threads, Look(t) PROVE TypeOK'
    BY <2>4 DEF Look
  <2>5. ASSUME NEW t \in Threads, Decide(t) PROVE TypeOK'
    <3>1. CASE ClaimFree(t)
      BY <3>1 DEF ClaimFree, Claim, Granted, HasPrior
    <3>2. CASE ClaimAsHead(t)
      BY <3>2 DEF ClaimAsHead, Claim, Granted, HasPrior
    <3>3. CASE ClaimPastWaiters(t)
      BY <3>3 DEF ClaimPastWaiters, Claim, Granted, HasPrior
    <3>4. CASE Defer(t)
      BY <3>4 DEF Defer, Refused, HasPrior
    <3>5. CASE Reenter(t)
      BY <3>5 DEF Reenter, Granted
    <3>6. CASE Enqueue(t)
      BY <3>6 DEF Enqueue, Refused
    <3>7. CASE StayOut(t)
      BY <3>7 DEF StayOut, Refused, HasPrior
    <3> QED BY <2>5, <3>1, <3>2, <3>3, <3>4, <3>5, <3>6, <3>7 DEF Decide
  <2>6. ASSUME NEW t \in Threads, CheckOwner(t) PROVE TypeOK'
    BY <2>6 DEF CheckOwner
  <2>7. ASSUME NEW t \in Threads, WokenUp(t) PROVE TypeOK'
    BY <2>7 DEF WokenUp
  <2>8. ASSUME NEW t \in Threads, SleepTimeout(t) PROVE TypeOK'
    BY <2>8 DEF SleepTimeout
  <2>9. ASSUME NEW t \in Threads, NEW s \in Sections, LeaveCall(t, s) PROVE TypeOK'
    BY <2>9 DEF LeaveCall
  <2>10. ASSUME NEW t \in Threads, TakeFlagToLeave(t) PROVE TypeOK'
    BY <2>10 DEF TakeFlagToLeave
  <2>11. ASSUME NEW t \in Threads, Leave(t) PROVE TypeOK'
    <3>1. CASE LeaveOnce(t)
      <4>1. dwLocks' \in [Sections -> Nat]
        BY <3>1 DEF LeaveOnce
      <4>2. trap' \in BOOLEAN
        BY <3>1, Zenon DEF LeaveOnce
      <4> QED BY <3>1, <4>1, <4>2 DEF LeaveOnce
    <3>2. CASE LeaveLast(t)
      BY <3>2 DEF LeaveLast
    <3> QED BY <2>11, <3>1, <3>2 DEF Leave
  <2>12. ASSUME NEW t \in Threads, WakeWaiter(t) PROVE TypeOK'
    BY <2>12 DEF WakeWaiter
  <2>13. CASE UNCHANGED vars
    BY <2>13 DEF vars, threadVars
  <2> QED
    BY <2>1, <2>2, <2>3, <2>4, <2>5, <2>6, <2>7, <2>8, <2>9, <2>10, <2>11,
       <2>12, <2>13 DEF Next
<1> QED BY <1>1, <1>2, PTL DEF Spec

-----------------------------------------------------------------------------
(***************************************************************************)
(* Exclusion.  MutualExclusion is not inductive: that a thread may act on  *)
(* what it saw when it looked rests on the flag it has held ever since.    *)
(***************************************************************************)

Flagged(t) ==
  pc[t] \in {"looking", "free", "owner", "barred", "leaving", "releasing"}

\* One thread at a time is between the exchange on a flag and its release.
FlagInv ==
  /\ \A t \in Threads : Flagged(t) => dwUpdating[section[t]]
  /\ \A t, u \in Threads :
       Flagged(t) /\ Flagged(u) /\ section[t] = section[u] => t = u

\* What a thread saw under the flag is still so.
SeenInv ==
  \A t \in Threads :
    /\ pc[t] \in {"free", "releasing"} => dwLocks[section[t]] = 0
    /\ pc[t] \in {"owner", "barred"} => dwLocks[section[t]] > 0
    /\ pc[t] \in {"owner", "releasing"} => dwThreadID[section[t]] = t
    /\ pc[t] = "barred" => dwThreadID[section[t]] # t

ExclusionInv == FlagInv /\ SeenInv /\ MutualExclusion

LEMMA ExclusionStep ==
  ASSUME TypeOK, ExclusionInv, [Next]_vars
  PROVE  ExclusionInv'
<1> USE ThreadsAssumption DEF TypeOK, ThreadOrNone, lockVars, Goto, ExclusionInv,
        FlagInv, Flagged, SeenInv, MutualExclusion, Entries
<1>1. ASSUME NEW t \in Threads, Call(t) PROVE ExclusionInv'
  <2> PICK s \in Sections : EnterCall(t, s) \/ NoWaitCall(t, s)
    BY <1>1 DEF Call
  <2>1. CASE EnterCall(t, s)
    BY <2>1 DEF EnterCall
  <2>2. CASE NoWaitCall(t, s)
    BY <2>2 DEF NoWaitCall
  <2> QED BY <2>1, <2>2
<1>2. ASSUME NEW t \in Threads, TakeFlag(t) PROVE ExclusionInv'
  BY <1>2 DEF TakeFlag
<1>3. ASSUME NEW t \in Threads, NoWaitBusy(t) PROVE ExclusionInv'
  BY <1>3 DEF NoWaitBusy
<1>4. ASSUME NEW t \in Threads, Look(t) PROVE ExclusionInv'
  BY <1>4 DEF Look
<1>5. ASSUME NEW t \in Threads, Decide(t) PROVE ExclusionInv'
  <2>1. ASSUME pc[t] = "free", Claim(t) PROVE ExclusionInv'
    BY <2>1 DEF Claim, Granted
  <2>2. ASSUME pc[t] \in {"free", "barred"}, Refused(t) PROVE ExclusionInv'
    BY <2>2 DEF Refused
  <2>3. CASE Reenter(t)
    BY <2>3 DEF Reenter, Granted
  <2> QED
    BY <1>5, <2>1, <2>2, <2>3
       DEF Decide, ClaimFree, ClaimAsHead, ClaimPastWaiters, Defer, Enqueue, StayOut
<1>6. ASSUME NEW t \in Threads, CheckOwner(t) PROVE ExclusionInv'
  BY <1>6 DEF CheckOwner
<1>7. ASSUME NEW t \in Threads, WokenUp(t) PROVE ExclusionInv'
  BY <1>7 DEF WokenUp
<1>8. ASSUME NEW t \in Threads, SleepTimeout(t) PROVE ExclusionInv'
  BY <1>8 DEF SleepTimeout
<1>9. ASSUME NEW t \in Threads, NEW s \in Sections, LeaveCall(t, s) PROVE ExclusionInv'
  BY <1>9 DEF LeaveCall
<1>10. ASSUME NEW t \in Threads, TakeFlagToLeave(t) PROVE ExclusionInv'
  BY <1>10 DEF TakeFlagToLeave
<1>11. ASSUME NEW t \in Threads, Leave(t) PROVE ExclusionInv'
  <2>1. CASE LeaveOnce(t)
    BY <2>1 DEF LeaveOnce
  <2>2. CASE LeaveLast(t)
    BY <2>2 DEF LeaveLast
  <2> QED BY <1>11, <2>1, <2>2 DEF Leave
<1>12. ASSUME NEW t \in Threads, WakeWaiter(t) PROVE ExclusionInv'
  BY <1>12 DEF WakeWaiter
<1>13. CASE UNCHANGED vars
  BY <1>13 DEF vars, threadVars
<1> QED
  BY <1>1, <1>2, <1>3, <1>4, <1>5, <1>6, <1>7, <1>8, <1>9, <1>10, <1>11,
     <1>12, <1>13 DEF Next

LEMMA ExclusionInvariant == Spec => []ExclusionInv
<1>1. Init => ExclusionInv
  BY DEF Init, ExclusionInv, FlagInv, Flagged, SeenInv, MutualExclusion, Entries
<1> QED BY <1>1, ExclusionStep, TypeCorrect, PTL DEF Spec

\* Never are two threads inside one section, and the section's count and owner
\* tell at all times which thread is inside and how deep, whatever the
\* interleaving of enters, polls and leaves.
THEOREM Exclusion == Spec => []MutualExclusion
<1>1. ExclusionInv => MutualExclusion
  BY DEF ExclusionInv
<1> QED BY <1>1, ExclusionInvariant, PTL

-----------------------------------------------------------------------------
(***************************************************************************)
(* Refinement: a grant of the section is an Acquire of the mutex, the call *)
(* of a leave is its Release, and every other step changes nothing the     *)
(* clients can see.                                                        *)
(***************************************************************************)

\* A thread that is about to be granted a section is alone in it.
LEMMA GrantIsAcquire ==
  ASSUME TypeOK, ExclusionInv, NEW t \in Threads, Granted(t),
         pc[t] \in {"free", "owner"}
  PROVE  Mutex!Acquire(t, section[t])
<1>1. ASSUME NEW u \in Threads \ {t} PROVE held[u][section[t]] = 0
  <2>1. section[t] \in Sections /\ held[u][section[t]] \in Nat
    BY DEF TypeOK
  <2>2. Entries(u, section[t]) = 0
    BY <2>1 DEF ExclusionInv, SeenInv, MutualExclusion
  <2> QED BY <2>1, <2>2 DEF Entries
<1> QED BY <1>1 DEF Mutex!Acquire, Granted

LEMMA RefinementStep ==
  ASSUME TypeOK, ExclusionInv, [Next]_vars
  PROVE  [Mutex!Next]_held
<1> USE DEF TypeOK
<1>1. ASSUME NEW t \in Threads, Granted(t), pc[t] \in {"free", "owner"}
      PROVE  Mutex!Next
  BY <1>1, GrantIsAcquire DEF Mutex!Next
<1>2. ASSUME NEW t \in Threads, Decide(t) PROVE [Mutex!Next]_held
  <2>1. CASE ClaimFree(t) \/ ClaimAsHead(t) \/ ClaimPastWaiters(t) \/ Reenter(t)
    <3>1. Granted(t) /\ pc[t] \in {"free", "owner"}
      BY <2>1 DEF ClaimFree, ClaimAsHead, ClaimPastWaiters, Claim, Reenter
    <3> QED BY <1>1, <3>1
  <2>2. CASE Defer(t) \/ Enqueue(t) \/ StayOut(t)
    BY <2>2 DEF Defer, Enqueue, StayOut, Refused
  <2> QED BY <1>2, <2>1, <2>2 DEF Decide
<1>3. ASSUME NEW t \in Threads, NEW s \in Sections, LeaveCall(t, s)
      PROVE  Mutex!Next
  BY <1>3 DEF LeaveCall, Mutex!Next, Mutex!Release
<1>4. ASSUME NEW t \in Threads,
             \/ Call(t) \/ TakeFlag(t) \/ NoWaitBusy(t) \/ Look(t)
             \/ CheckOwner(t) \/ WokenUp(t) \/ SleepTimeout(t)
             \/ TakeFlagToLeave(t) \/ Leave(t) \/ WakeWaiter(t)
      PROVE  UNCHANGED held
  BY <1>4 DEF Call, EnterCall, NoWaitCall, TakeFlag, NoWaitBusy, Look, CheckOwner,
       WokenUp, SleepTimeout, TakeFlagToLeave, Leave, LeaveOnce, LeaveLast, WakeWaiter
<1>5. CASE UNCHANGED vars
  BY <1>5 DEF vars
<1> QED BY <1>2, <1>3, <1>4, <1>5 DEF Next

\* To its users a section is a recursive mutex: CriticalSection implements
\* RecursiveMutex, the entries each thread holds being its depth.
THEOREM Refinement == Spec => ImplementsMutex
<1>1. Init => Mutex!Init
  BY DEF Init, Mutex!Init
<1> QED
  BY <1>1, RefinementStep, TypeCorrect, ExclusionInvariant, PTL
     DEF Spec, ImplementsMutex, Mutex!Spec

-----------------------------------------------------------------------------
(***************************************************************************)
(* The list of waiters.  The inductive invariant says that each section    *)
(* has a chain of some length; that the length is the number of queued     *)
(* threads follows from the chain being a bijection.                       *)
(***************************************************************************)

HasChain(s) == \E n \in Nat : \E order \in [1..n -> Queued(s)] : IsChain(s, n, order)

Waits(t) == pc[t] \in Entering /\ HasPrior(t)

\* A queued thread does not own the section it is queued for.
QueuedOutside == \A t \in Threads : Waits(t) => dwThreadID[section[t]] # t

WaiterInv == (\A s \in Sections : HasChain(s)) /\ QueuedOutside /\ NeverTraps

LEMMA ChainFrame ==
  ASSUME NEW s \in Sections, HasChain(s), Queued(s)' = Queued(s),
         \A q \in Queued(s) : prior'[q] = prior[q],
         dwThreadWaiting'[s] = dwThreadWaiting[s]
  PROVE  HasChain(s)'
<1> PICK n \in Nat : \E order \in [1..n -> Queued(s)] : IsChain(s, n, order)
  BY DEF HasChain
<1> PICK order \in [1..n -> Queued(s)] : IsChain(s, n, order)
  OBVIOUS
<1>1. IsChain(s, n, order)'
  BY DEF IsChain
<1> QED BY <1>1 DEF HasChain

LEMMA ChainFacts ==
  ASSUME TypeOK, NEW s \in Sections, HasChain(s)
  PROVE  /\ dwThreadWaiting[s] = NoThread => Queued(s) = {}
         /\ dwThreadWaiting[s] # NoThread => dwThreadWaiting[s] \in Queued(s)
         /\ \A q \in Queued(s) \ {dwThreadWaiting[s]} :
              dwThreadWaiting[s] # NoThread /\ prior[q] # dwThreadWaiting[s]
<1> PICK n \in Nat : \E order \in [1..n -> Queued(s)] : IsChain(s, n, order)
  BY DEF HasChain
<1> PICK order \in [1..n -> Queued(s)] : IsChain(s, n, order)
  OBVIOUS
<1>1. Queued(s) \subseteq Threads
  BY DEF Queued
<1>2. CASE n = 0
  BY <1>2 DEF IsChain
<1>3. CASE n > 0
  <2>1. dwThreadWaiting[s] = order[1] /\ order[1] \in Queued(s)
    BY <1>3 DEF IsChain
  <2>2. ASSUME NEW q \in Queued(s), q # order[1] PROVE prior[q] # order[1]
    <3>1. PICK i \in 1..n : order[i] = q
      BY DEF IsChain
    <3>2. CASE i = n
      BY <3>1, <3>2, <2>1, <1>1, ThreadsAssumption DEF IsChain
    <3>3. CASE i # n
      <4>1. i + 1 \in 1..n /\ i + 1 # 1 /\ 1 \in 1..n
        BY <3>3
      <4>2. prior[q] = order[i + 1]
        BY <3>1, <3>3 DEF IsChain
      <4> QED BY <4>1, <4>2 DEF IsChain
    <3> QED BY <3>2, <3>3
  <2> QED BY <2>1, <2>2, <1>1, ThreadsAssumption
<1> QED BY <1>2, <1>3

LEMMA ChainPush ==
  ASSUME TypeOK, NEW s \in Sections, HasChain(s), NEW t \in Threads \ Queued(s),
         Queued(s)' = Queued(s) \cup {t},
         prior' = [prior EXCEPT ![t] = IF dwThreadWaiting[s] = NoThread
                                       THEN EndOfChain ELSE dwThreadWaiting[s]],
         dwThreadWaiting' = [dwThreadWaiting EXCEPT ![s] = t]
  PROVE  HasChain(s)'
<1> PICK n \in Nat : \E order \in [1..n -> Queued(s)] : IsChain(s, n, order)
  BY DEF HasChain
<1> PICK order \in [1..n -> Queued(s)] : IsChain(s, n, order)
  OBVIOUS
<1>a. /\ prior'[t] = IF dwThreadWaiting[s] = NoThread THEN EndOfChain ELSE dwThreadWaiting[s]
      /\ \A q \in Queued(s) : q \in Threads /\ q # t /\ prior'[q] = prior[q]
  BY DEF TypeOK, Queued
<1>b. dwThreadWaiting'[s] = t
  BY DEF TypeOK
<1>c. n > 0 => order[1] \in Queued(s) /\ order[1] # NoThread
  BY <1>a, ThreadsAssumption
<1> DEFINE longer == [i \in 1..n + 1 |-> IF i = 1 THEN t ELSE order[i - 1]]
<1>1. n + 1 \in Nat /\ longer \in [1..n + 1 -> Queued(s)']
  OBVIOUS
<1>2. \A q \in Queued(s)' : \E i \in 1..n + 1 : longer[i] = q
  <2>1. longer[1] = t /\ 1 \in 1..n + 1
    OBVIOUS
  <2>2. ASSUME NEW q \in Queued(s) PROVE \E i \in 1..n + 1 : longer[i] = q
    <3>1. PICK i \in 1..n : order[i] = q
      BY DEF IsChain
    <3>2. i + 1 \in 1..n + 1 /\ longer[i + 1] = q
      BY <3>1
    <3> QED BY <3>2
  <2> QED BY <2>1, <2>2
<1>3. \A i, j \in 1..n + 1 : longer[i] = longer[j] => i = j
  <2>1. ASSUME NEW i \in 1..n + 1, i # 1 PROVE i - 1 \in 1..n /\ longer[i] = order[i - 1] /\ longer[i] # t
    BY <2>1
  <2> QED BY <2>1 DEF IsChain
<1>4. \A i \in 1..n + 1 :
        prior'[longer[i]] = IF i = n + 1 THEN EndOfChain ELSE longer[i + 1]
  <2> TAKE i \in 1..n + 1
  <2>1. CASE i = 1
    <3>1. longer[i] = t
      BY <2>1
    <3>2. CASE n = 0
      BY <1>a, <2>1, <3>1, <3>2 DEF IsChain
    <3>3. CASE n > 0
      <4>1. longer[i + 1] = order[1] /\ i # n + 1
        BY <2>1, <3>3
      <4>2. prior'[t] = order[1]
        BY <1>a, <1>c, <3>3, SMTT(30) DEF IsChain
      <4> QED BY <3>1, <4>1, <4>2
    <3> QED BY <3>2, <3>3
  <2>2. CASE i # 1
    <3>1. i - 1 \in 1..n /\ longer[i] = order[i - 1]
      BY <2>2
    <3>2. prior'[longer[i]] = IF i - 1 = n THEN EndOfChain ELSE order[(i - 1) + 1]
      BY <1>a, <3>1 DEF IsChain
    <3>3. i # n + 1 => longer[i + 1] = order[(i - 1) + 1]
      BY <2>2, <3>1
    <3> QED BY <3>1, <3>2, <3>3
  <2> QED BY <2>1, <2>2
<1>5. dwThreadWaiting'[s] = longer[1] /\ n + 1 # 0
  BY <1>b
<1> HIDE DEF longer
<1>6. IsChain(s, n + 1, longer)'
  BY <1>2, <1>3, <1>4, <1>5 DEF IsChain
<1> QED BY <1>1, <1>6 DEF HasChain

LEMMA ChainPop ==
  ASSUME TypeOK, NEW s \in Sections, HasChain(s), NEW t \in Queued(s),
         dwThreadWaiting[s] = t,
         Queued(s)' = Queued(s) \ {t},
         prior' = [prior EXCEPT ![t] = NoThread],
         dwThreadWaiting' = [dwThreadWaiting EXCEPT ![s] =
           IF prior[t] # EndOfChain THEN prior[t] ELSE NoThread]
  PROVE  HasChain(s)'
<1> PICK n \in Nat : \E order \in [1..n -> Queued(s)] : IsChain(s, n, order)
  BY DEF HasChain
<1> PICK order \in [1..n -> Queued(s)] : IsChain(s, n, order)
  OBVIOUS
<1>1. n > 0 /\ order[1] = t
  BY DEF IsChain, Queued
<1> DEFINE shorter == [i \in 1..n - 1 |-> order[i + 1]]
<1>2. \A q \in Queued(s) : q \in Threads /\ (q # t => prior'[q] = prior[q])
  BY DEF TypeOK, Queued
<1>3. \A i \in 1..n - 1 : /\ i + 1 \in 1..n
                         /\ shorter[i] = order[i + 1]
                         /\ shorter[i] # t
  BY <1>1 DEF IsChain
<1>4. n - 1 \in Nat /\ shorter \in [1..n - 1 -> Queued(s)']
  BY <1>1, <1>3
<1>5. \A q \in Queued(s)' : \E i \in 1..n - 1 : shorter[i] = q
  <2> TAKE q \in Queued(s)'
  <2>1. PICK i \in 1..n : order[i] = q
    BY DEF IsChain
  <2>2. i - 1 \in 1..n - 1 /\ shorter[i - 1] = q
    BY <1>1, <2>1
  <2> QED BY <2>2
<1>6. \A i, j \in 1..n - 1 : shorter[i] = shorter[j] => i = j
  BY <1>3 DEF IsChain
<1>7. \A i \in 1..n - 1 :
        prior'[shorter[i]] = IF i = n - 1 THEN EndOfChain ELSE shorter[i + 1]
  <2> TAKE i \in 1..n - 1
  <2>1. prior'[shorter[i]] = IF i + 1 = n THEN EndOfChain ELSE order[(i + 1) + 1]
    BY <1>2, <1>3 DEF IsChain
  <2>2. i # n - 1 => shorter[i + 1] = order[(i + 1) + 1]
    BY <1>1
  <2> QED BY <2>1, <2>2
<1>8. dwThreadWaiting'[s] = IF n - 1 = 0 THEN NoThread ELSE shorter[1]
  <2>1. prior[t] = IF 1 = n THEN EndOfChain ELSE order[2]
    BY <1>1, SMTT(30) DEF IsChain
  <2>2. n # 1 => order[2] \in Threads /\ shorter[1] = order[2]
    BY <1>1, <1>2
  <2> QED BY <1>1, <2>1, <2>2, ThreadsAssumption DEF TypeOK
<1> HIDE DEF shorter
<1>9. IsChain(s, n - 1, shorter)'
  BY <1>5, <1>6, <1>7, <1>8 DEF IsChain
<1> QED BY <1>4, <1>9 DEF HasChain

\* Who is about to leave owns the section.
LEMMA LeaverOwns ==
  ASSUME TypeOK, ExclusionInv, NEW t \in Threads, pc[t] = "leaving"
  PROVE  dwLocks[section[t]] > 0 /\ dwThreadID[section[t]] = t
<1>1. section[t] \in Sections /\ held[t][section[t]] \in Nat /\ dwLocks[section[t]] \in Nat
  BY DEF TypeOK
<1>2. Entries(t, section[t]) = held[t][section[t]] + 1
  BY DEF Entries
<1> QED BY <1>1, <1>2 DEF ExclusionInv, MutualExclusion

\* A step that leaves every list alone, and makes no waiter the owner.
LEMMA WaiterFrame ==
  ASSUME TypeOK, WaiterInv, UNCHANGED <<dwThreadWaiting, trap>>,
         \A u \in Threads : Waits(u)' <=> Waits(u),
         \A u \in Threads : Waits(u) => section'[u] = section[u] /\ prior'[u] = prior[u],
         \A s \in Sections : \/ dwThreadID'[s] \in {dwThreadID[s], NoThread}
                            \/ ~Waits(dwThreadID'[s])
  PROVE  WaiterInv'
<1>1. ASSUME NEW s \in Sections PROVE HasChain(s)'
  <2>1. Queued(s)' = Queued(s)
    BY DEF Queued, Waits
  <2>2. \A q \in Queued(s) : prior'[q] = prior[q]
    BY DEF Queued, Waits
  <2> QED BY <2>1, <2>2, ChainFrame DEF WaiterInv
<1>2. QueuedOutside'
  BY ThreadsAssumption, SMTT(30) DEF WaiterInv, QueuedOutside, TypeOK, Waits
<1>3. NeverTraps'
  BY DEF WaiterInv, NeverTraps
<1> QED BY <1>1, <1>2, <1>3 DEF WaiterInv

LEMMA WaiterStep ==
  ASSUME TypeOK, ExclusionInv, WaiterInv, [Next]_vars
  PROVE  WaiterInv'
<1> USE ThreadsAssumption DEF TypeOK, lockVars, Goto, Waits, HasPrior, Entering
<1>1. ASSUME NEW t \in Threads, Call(t) PROVE WaiterInv'
  <2> PICK s \in Sections : EnterCall(t, s) \/ NoWaitCall(t, s)
    BY <1>1 DEF Call
  <2>1. CASE EnterCall(t, s)
    BY <2>1, WaiterFrame DEF EnterCall
  <2>2. CASE NoWaitCall(t, s)
    BY <2>2, WaiterFrame DEF NoWaitCall
  <2> QED BY <2>1, <2>2
<1>2. ASSUME NEW t \in Threads, TakeFlag(t) PROVE WaiterInv'
  BY <1>2, WaiterFrame DEF TakeFlag
<1>3. ASSUME NEW t \in Threads, NoWaitBusy(t) PROVE WaiterInv'
  BY <1>3, WaiterFrame DEF NoWaitBusy
<1>4. ASSUME NEW t \in Threads, Look(t) PROVE WaiterInv'
  BY <1>4, WaiterFrame DEF Look
<1>5. ASSUME NEW t \in Threads, Decide(t) PROVE WaiterInv'
  <2> PICK s \in Sections : s = section[t]
    OBVIOUS
  <2>0. /\ s \in Sections /\ HasChain(s)
        /\ dwThreadWaiting[s] = NoThread => Queued(s) = {}
        /\ dwThreadWaiting[s] # NoThread => dwThreadWaiting[s] \in Queued(s)
        /\ \A q \in Queued(s) \ {dwThreadWaiting[s]} :
             dwThreadWaiting[s] # NoThread /\ prior[q] # dwThreadWaiting[s]
    BY ChainFacts DEF WaiterInv
  <2>a. Waits(t) => t \in Queued(s)
    BY DEF Queued
  <2>1. CASE ClaimFree(t)
    <3>1. ~Waits(t) /\ ~HasPrior(t)
      BY <2>0, <2>1, <2>a DEF ClaimFree
    <3> QED BY <2>1, <3>1, WaiterFrame DEF ClaimFree, Claim, Granted
  <2>2. CASE ClaimAsHead(t)
    <3>1. t \in Queued(s) /\ Waits(t) /\ HasPrior(t) /\ dwThreadWaiting[s] = t
      BY <2>0, <2>2 DEF ClaimAsHead, Queued
    <3>2. /\ dwThreadWaiting' = [dwThreadWaiting EXCEPT ![s] =
               IF prior[t] # EndOfChain THEN prior[t] ELSE NoThread]
          /\ prior' = [prior EXCEPT ![t] = NoThread]
          /\ pc' = [pc EXCEPT ![t] = "idle"]
          /\ dwThreadID' = [dwThreadID EXCEPT ![s] = t]
          /\ UNCHANGED <<section, queues, trap>>
      BY <2>2, <3>1 DEF ClaimAsHead, Claim, Granted
    <3>3. Queued(s)' = Queued(s) \ {t}
      BY <3>2 DEF Queued
    <3>4. HasChain(s)'
      BY <2>0, <3>1, <3>2, <3>3, ChainPop
    <3>5. ASSUME NEW r \in Sections \ {s} PROVE HasChain(r)'
      <4>1. t \notin Queued(r)
        BY <3>1 DEF Queued
      <4>2. Queued(r)' = Queued(r)
        BY <3>2, <4>1 DEF Queued
      <4>3. HasChain(r) /\ dwThreadWaiting'[r] = dwThreadWaiting[r]
        BY <3>2 DEF WaiterInv
      <4>4. \A q \in Queued(r) : prior'[q] = prior[q]
        BY <3>2, <4>1 DEF Queued
      <4> QED BY <4>2, <4>3, <4>4, ChainFrame
    <3>6. QueuedOutside'
      BY <2>0, <3>2 DEF WaiterInv, QueuedOutside
    <3> QED BY <3>2, <3>4, <3>5, <3>6 DEF WaiterInv, NeverTraps
  <2>3. CASE ClaimPastWaiters(t)
    BY <2>3, WaiterFrame DEF ClaimPastWaiters, Claim, Granted
  <2>4. CASE Defer(t)
    BY <2>4, WaiterFrame DEF Defer, Refused
  <2>5. CASE Reenter(t)
    <3>1. ~Waits(t)
      BY <2>5 DEF Reenter, WaiterInv, QueuedOutside, ExclusionInv, SeenInv
    <3> QED BY <2>5, <3>1, WaiterFrame DEF Reenter, Granted
  <2>6. CASE Enqueue(t)
    <3>1. t \in Threads \ Queued(s) /\ dwThreadID[s] # t
      BY <2>6 DEF Enqueue, Queued, ExclusionInv, SeenInv
    <3>2. /\ dwThreadWaiting' = [dwThreadWaiting EXCEPT ![s] = t]
          /\ prior' = [prior EXCEPT ![t] = IF dwThreadWaiting[s] = NoThread
                                          THEN EndOfChain ELSE dwThreadWaiting[s]]
          /\ pc[t] = "barred" /\ pc' = [pc EXCEPT ![t] = "refused"]
          /\ queues[t] /\ section[t] = s
          /\ UNCHANGED <<section, queues, trap, dwThreadID>>
      BY <2>6 DEF Enqueue, Refused
    <3>3. Queued(s)' = Queued(s) \cup {t}
      BY <3>2 DEF Queued
    <3>4. HasChain(s)'
      BY <2>0, <3>1, <3>2, <3>3, ChainPush
    <3>5. ASSUME NEW r \in Sections \ {s} PROVE HasChain(r)'
      <4>1. t \notin Queued(r) /\ t \notin Queued(r)'
        BY <3>2 DEF Queued
      <4>2. Queued(r)' = Queued(r)
        BY <3>2, <4>1 DEF Queued
      <4>3. HasChain(r) /\ dwThreadWaiting'[r] = dwThreadWaiting[r]
        BY <3>2 DEF WaiterInv
      <4>4. \A q \in Queued(r) : prior'[q] = prior[q]
        BY <3>2, <4>1 DEF Queued
      <4> QED BY <4>2, <4>3, <4>4, ChainFrame
    <3>6. QueuedOutside'
      BY <3>1, <3>2 DEF WaiterInv, QueuedOutside
    <3> QED BY <3>2, <3>4, <3>5, <3>6 DEF WaiterInv, NeverTraps
  <2>7. CASE StayOut(t)
    <3>1. UNCHANGED <<dwThreadWaiting, prior, trap>>
      BY <2>0, <2>7, <2>a DEF StayOut
    <3> QED BY <2>7, <3>1, WaiterFrame DEF StayOut, Refused
  <2> QED BY <1>5, <2>1, <2>2, <2>3, <2>4, <2>5, <2>6, <2>7 DEF Decide
<1>6. ASSUME NEW t \in Threads, CheckOwner(t) PROVE WaiterInv'
  BY <1>6, WaiterFrame DEF CheckOwner
<1>7. ASSUME NEW t \in Threads, WokenUp(t) PROVE WaiterInv'
  BY <1>7, WaiterFrame DEF WokenUp
<1>8. ASSUME NEW t \in Threads, SleepTimeout(t) PROVE WaiterInv'
  BY <1>8, WaiterFrame DEF SleepTimeout
<1>9. ASSUME NEW t \in Threads, NEW s \in Sections, LeaveCall(t, s) PROVE WaiterInv'
  BY <1>9, WaiterFrame DEF LeaveCall
<1>10. ASSUME NEW t \in Threads, TakeFlagToLeave(t) PROVE WaiterInv'
  BY <1>10, WaiterFrame DEF TakeFlagToLeave
<1>11. ASSUME NEW t \in Threads, Leave(t) PROVE WaiterInv'
  <2>1. CASE LeaveOnce(t)
    <3>1. UNCHANGED trap
      BY <2>1, LeaverOwns DEF LeaveOnce
    <3> QED BY <2>1, <3>1, WaiterFrame DEF LeaveOnce
  <2>2. CASE LeaveLast(t)
    BY <2>2, WaiterFrame DEF LeaveLast
  <2> QED BY <1>11, <2>1, <2>2 DEF Leave
<1>12. ASSUME NEW t \in Threads, WakeWaiter(t) PROVE WaiterInv'
  BY <1>12, WaiterFrame DEF WakeWaiter
<1>13. CASE UNCHANGED vars
  BY <1>13, WaiterFrame DEF vars, threadVars
<1> QED
  BY <1>1, <1>2, <1>3, <1>4, <1>5, <1>6, <1>7, <1>8, <1>9, <1>10, <1>11,
     <1>12, <1>13 DEF Next

LEMMA WaiterInvariant == Spec => []WaiterInv
<1>1. Init => WaiterInv
  <2> SUFFICES ASSUME Init PROVE WaiterInv
    OBVIOUS
  <2>1. ASSUME NEW s \in Sections PROVE HasChain(s)
    <3>1. Queued(s) = {} /\ dwThreadWaiting[s] = NoThread
      BY DEF Init, Queued, Entering
    <3> DEFINE none == [i \in 1..0 |-> i]
    <3>2. none \in [1..0 -> Queued(s)] /\ IsChain(s, 0, none)
      BY <3>1 DEF IsChain
    <3> QED BY <3>2 DEF HasChain
  <2>2. QueuedOutside /\ NeverTraps
    BY DEF Init, QueuedOutside, Waits, Entering, NeverTraps
  <2> QED BY <2>1, <2>2 DEF WaiterInv
<1> QED BY <1>1, WaiterStep, TypeCorrect, ExclusionInvariant, PTL DEF Spec

\* A chain has as many links as there are queued threads.
LEMMA ChainLength ==
  ASSUME NEW s \in Sections, NEW n \in Nat, NEW order \in [1..n -> Queued(s)],
         IsChain(s, n, order)
  PROVE  n = Cardinality(Queued(s))
<1>1. order \in Bijection(1..n, Queued(s))
  BY DEF IsChain, Bijection, Injection, Surjection, IsInjective
<1>2. IsFiniteSet(1..n) /\ Cardinality(1..n) = n
  BY FS_Interval
<1> QED BY <1>1, <1>2, FS_Bijection DEF ExistsBijection

\* The list of waiters of every section, spread over the stacks of the waiting
\* threads, links each of them exactly once, however many there are and however
\* enters, polls and leaves interleave.
THEOREM ListIsChain == Spec => []WaiterChain
<1>1. WaiterInv => WaiterChain
  <2> SUFFICES ASSUME WaiterInv, NEW s \in Sections
               PROVE  \E order \in [1..Cardinality(Queued(s)) -> Queued(s)] :
                        IsChain(s, Cardinality(Queued(s)), order)
    BY DEF WaiterChain
  <2>1. PICK n \in Nat : \E order \in [1..n -> Queued(s)] : IsChain(s, n, order)
    BY DEF WaiterInv, HasChain
  <2>2. n = Cardinality(Queued(s))
    BY <2>1, ChainLength
  <2> QED BY <2>1, <2>2
<1> QED BY <1>1, WaiterInvariant, PTL

\* The breaks that the enter and leave functions keep for impossible states are
\* never executed.
THEOREM BreaksUnreachable == Spec => []NeverTraps
<1>1. WaiterInv => NeverTraps
  BY DEF WaiterInv
<1> QED BY <1>1, WaiterInvariant, PTL

-----------------------------------------------------------------------------
(***************************************************************************)
(* Wakes.  The head of a list only goes to sleep having seen an owner, and *)
(* whoever gives up the ownership reads the head at that moment.           *)
(***************************************************************************)

LEMMA HeadWaits ==
  ASSUME TypeOK, WaiterInv, NEW s \in Sections, dwThreadWaiting[s] # NoThread
  PROVE  /\ dwThreadWaiting[s] \in Threads
         /\ Waits(dwThreadWaiting[s])
         /\ section[dwThreadWaiting[s]] = s
<1>1. dwThreadWaiting[s] \in Queued(s)
  BY ChainFacts DEF WaiterInv
<1> QED BY <1>1 DEF Queued, Waits

LEMMA WakeStep ==
  ASSUME TypeOK, ExclusionInv, WaiterInv, NoLostWakeup, [Next]_vars
  PROVE  NoLostWakeup'
<1> DEFINE Head == \A s \in Sections : dwThreadWaiting[s] # NoThread =>
                     /\ dwThreadWaiting[s] \in Threads
                     /\ Waits(dwThreadWaiting[s])
                     /\ section[dwThreadWaiting[s]] = s
<1>h. Head
  BY HeadWaits
<1> USE ThreadsAssumption DEF TypeOK, ThreadOrNone, lockVars, Goto, Waits, HasPrior,
        Entering, NoLostWakeup
<1>1. ASSUME NEW t \in Threads, Call(t) PROVE NoLostWakeup'
  <2> PICK s \in Sections : EnterCall(t, s) \/ NoWaitCall(t, s)
    BY <1>1 DEF Call
  <2>1. CASE EnterCall(t, s)
    BY <1>h, <2>1 DEF EnterCall
  <2>2. CASE NoWaitCall(t, s)
    BY <1>h, <2>2 DEF NoWaitCall
  <2> QED BY <2>1, <2>2
<1>2. ASSUME NEW t \in Threads, TakeFlag(t) PROVE NoLostWakeup'
  BY <1>h, <1>2 DEF TakeFlag
<1>3. ASSUME NEW t \in Threads, NoWaitBusy(t) PROVE NoLostWakeup'
  BY <1>h, <1>3 DEF NoWaitBusy
<1>4. ASSUME NEW t \in Threads, Look(t) PROVE NoLostWakeup'
  BY <1>h, <1>4 DEF Look
<1>5. ASSUME NEW t \in Threads, Decide(t) PROVE NoLostWakeup'
  <2>1. CASE ClaimFree(t)
    BY <1>h, <2>1 DEF ClaimFree, Claim, Granted
  <2>2. CASE ClaimPastWaiters(t)
    BY <1>h, <2>2 DEF ClaimPastWaiters, Claim, Granted
  <2>3. CASE ClaimAsHead(t)
    BY <1>h, <2>3 DEF ClaimAsHead, Claim, Granted
  <2>7. CASE Defer(t)
    BY <1>h, <2>7 DEF Defer, Refused
  <2>4. CASE Reenter(t)
    BY <1>h, <2>4 DEF Reenter, Granted, ExclusionInv, SeenInv
  <2>5. CASE Enqueue(t)
    BY <1>h, <2>5 DEF Enqueue, Refused, ExclusionInv, SeenInv, MutualExclusion
  <2>6. CASE StayOut(t)
    BY <1>h, <2>6, SMTT(30) DEF StayOut, Refused, ExclusionInv, SeenInv, MutualExclusion
  <2> QED BY <1>5, <2>1, <2>2, <2>3, <2>4, <2>5, <2>6, <2>7 DEF Decide
<1>6. ASSUME NEW t \in Threads, CheckOwner(t) PROVE NoLostWakeup'
  BY <1>h, <1>6 DEF CheckOwner
<1>7. ASSUME NEW t \in Threads, WokenUp(t) PROVE NoLostWakeup'
  BY <1>h, <1>7 DEF WokenUp
<1>8. ASSUME NEW t \in Threads, SleepTimeout(t) PROVE NoLostWakeup'
  BY <1>h, <1>8 DEF SleepTimeout
<1>9. ASSUME NEW t \in Threads, NEW s \in Sections, LeaveCall(t, s) PROVE NoLostWakeup'
  BY <1>h, <1>9 DEF LeaveCall
<1>10. ASSUME NEW t \in Threads, TakeFlagToLeave(t) PROVE NoLostWakeup'
  BY <1>h, <1>10 DEF TakeFlagToLeave
<1>11. ASSUME NEW t \in Threads, Leave(t) PROVE NoLostWakeup'
  <2>1. CASE LeaveOnce(t)
    BY <1>h, <2>1 DEF LeaveOnce
  <2>2. CASE LeaveLast(t)
    <3> SUFFICES ASSUME NEW r \in Sections \ PolledSections,
                        dwThreadID'[r] = NoThread, dwThreadWaiting'[r] # NoThread
                 PROVE  LET w == dwThreadWaiting[r]
                        IN  \/ pc'[w] \in Entering \ {"asleep"}
                            \/ event'[w]
                            \/ \E u \in Threads : pc'[u] = "wake" /\ dwWaiting'[u] = w
      BY <2>2 DEF LeaveLast
    <3>1. CASE r = section[t]
      BY <2>2, <3>1 DEF LeaveLast
    <3>2. CASE r # section[t]
      <4>1. dwThreadID[r] = NoThread /\ dwThreadWaiting[r] # NoThread
        BY <2>2, <3>2 DEF LeaveLast
      <4>2. \A u \in Threads \ {t} : pc'[u] = pc[u] /\ dwWaiting'[u] = dwWaiting[u]
        BY <2>2 DEF LeaveLast
      <4>3. dwThreadWaiting[r] \in Threads \ {t}
        BY <1>h, <2>2, <4>1 DEF LeaveLast
      <4>4. \A u \in Threads : pc[u] = "wake" => u # t
        BY <2>2 DEF LeaveLast
      <4> QED BY <2>2, <4>1, <4>2, <4>3, <4>4 DEF LeaveLast
    <3> QED BY <3>1, <3>2
  <2> QED BY <1>11, <2>1, <2>2 DEF Leave
<1>12. ASSUME NEW t \in Threads, WakeWaiter(t) PROVE NoLostWakeup'
  BY <1>h, <1>12 DEF WakeWaiter
<1>13. CASE UNCHANGED vars
  BY <1>13 DEF vars, threadVars
<1> QED
  BY <1>1, <1>2, <1>3, <1>4, <1>5, <1>6, <1>7, <1>8, <1>9, <1>10, <1>11,
     <1>12, <1>13 DEF Next

\* The wake of a leave is never lost: a free section with waiters always has
\* one that is up, or about to be, without any help of the 25 ms timeout.
THEOREM WakesArrive == Spec => []NoLostWakeup
<1>1. Init => NoLostWakeup
  BY DEF Init, NoLostWakeup
<1> QED
  BY <1>1, WakeStep, TypeCorrect, ExclusionInvariant, WaiterInvariant, PTL DEF Spec
=============================================================================
