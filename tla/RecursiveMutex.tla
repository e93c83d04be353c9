--------------------------- MODULE RecursiveMutex ---------------------------
(***************************************************************************)
(* What a CRITICALSECTION promises its users (src/include/sharemem.h): the *)
(* code between EnterCriticalSec and LeaveCriticalSec "will only be run by *)
(* a single thread", which may enter again, and which leaves as many times *)
(* as it entered.                                                          *)
(***************************************************************************)
EXTENDS Naturals

CONSTANTS Threads, Sections

VARIABLE depth   \* [thread][section] how many times the thread is inside

Init == depth = [t \in Threads |-> [s \in Sections |-> 0]]

Acquire(t, s) ==
  /\ \A u \in Threads \ {t} : depth[u][s] = 0
  /\ depth' = [depth EXCEPT ![t][s] = @ + 1]

Release(t, s) ==
  /\ depth[t][s] > 0
  /\ depth' = [depth EXCEPT ![t][s] = @ - 1]

Next == \E t \in Threads, s \in Sections : Acquire(t, s) \/ Release(t, s)

Spec == Init /\ [][Next]_depth
=============================================================================
