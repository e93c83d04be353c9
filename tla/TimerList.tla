------------------------------ MODULE TimerList ------------------------------
(***************************************************************************)
(* The list of timers of timerlib/timers.c.  A timer's delta counts from   *)
(* the timer before it, and the first one's from last_tick, so the sum of  *)
(* the deltas up to a timer says when it is due.  A timer is in the list   *)
(* exactly when its `me' is not NULL.                                      *)
(***************************************************************************)
EXTENDS Integers, Sequences, FiniteSetsExt, SequencesExt

\* How long after last_tick the k-th timer of the list is due.
Offset(timers, delta, k) ==
  LET upTo[j \in 0..Len(timers)] == IF j = 0 THEN 0 ELSE upTo[j - 1] + delta[timers[j]]
  IN upTo[k]

Listed(timers, timer) == Contains(timers, timer)

\* The walk of DoInsertTimer stops before the first timer that is due later
\* (not at the same time) than the new one, or after the last.
Place(timers, delta, amount) ==
  Min({i \in 1..Len(timers) : amount < Offset(timers, delta, i)} \cup {Len(timers) + 1})

\* (Mutation) The timer after the new one keeps its delta.
LinkedBesides(timers, delta, timer, amount) ==
  LET p == Place(timers, delta, amount) IN
  [order |-> InsertAt(timers, p, timer),
   delta |-> [delta EXCEPT ![timer] = amount - Offset(timers, delta, p - 1)]]

\* The list with timer linked in, due `amount' after last_tick.
Linked(timers, delta, timer, amount) ==
  LET p == Place(timers, delta, amount)
      own == amount - Offset(timers, delta, p - 1)
  IN [order |-> InsertAt(timers, p, timer),
      delta |-> [u \in DOMAIN delta |->
                   IF u = timer THEN own
                   ELSE IF p <= Len(timers) /\ u = timers[p] THEN delta[u] - own
                   ELSE delta[u]]]

\* (Mutation) A timer that is taken out takes its delta along.
UnlinkedWithDelta(timers, delta, timer, toProcess) ==
  LET p == SelectInSeq(timers, LAMBDA u : u = timer)
  IN [order |-> RemoveAt(timers, p), delta |-> delta]

\* The list with timer taken out.  The next timer inherits its delta, unless it
\* is taken to be processed (last_tick moves on instead).
Unlinked(timers, delta, timer, toProcess) ==
  LET p == SelectInSeq(timers, LAMBDA u : u = timer)
  IN [order |-> RemoveAt(timers, p),
      delta |-> [u \in DOMAIN delta |->
                   IF ~toProcess /\ p < Len(timers) /\ u = timers[p + 1]
                   THEN delta[u] + delta[timer] ELSE delta[u]]]
=============================================================================
