------------------------------- MODULE Timers -------------------------------
(***************************************************************************)
(* The timers of SACK (timerlib/timers.c): one timer thread that sleeps    *)
(* until the first timer of a list is due and calls it back, and threads   *)
(* that add, remove, reschedule and change timers.                         *)
(*                                                                         *)
(* A thread adds a timer either itself, when it finds the timer thread     *)
(* away in a callback, or through the slot add_timer; it removes one       *)
(* through the slot del_timer; it reschedules and changes timers in the    *)
(* list.  Callbacks, which run on the timer thread, do all of it directly. *)
(*                                                                         *)
(* csGrab protects the list, cs_timer_change the slots: what is done under *)
(* csGrab alone is one step (CriticalSection shows that a section          *)
(* excludes), except where it reads what is written without csGrab.  The   *)
(* counter insert_while_away_count and the flags of a timer are bits and   *)
(* words that two threads update without a lock, so an update is a read    *)
(* and a write.  Memory is sequentially consistent.                        *)
(*                                                                         *)
(* IDs are not reused and the timer thread runs: AddTimerExx's choice of   *)
(* an ID and its start of the thread are left out, and so are StopTimers   *)
(* and the halt of the display.                                            *)
(***************************************************************************)
EXTENDS TimerList, FiniteSets

CONSTANTS
  Clients,       \* the threads that call, other than the timer thread
  Timers,        \* the timers they may make (a bound), named by their IDs
  Resident,      \* periodic timers in the list from the beginning, never removed
  Adders,        \* the clients that call AddTimer
  Removers,      \* those that call RemoveTimer
  Reschedulers,  \* those that call RescheduleTimerEx
  Changers,      \* those that call ChangeTimerEx
  CallbackCalls, \* what callbacks call: a subset of the names below
  PendingRemoval,\* a timer may be removed before the timer thread has taken it
  Delays,        \* the delays that are asked for
  Frequencies,   \* the frequencies that are asked for, 0 for a one shot timer
  CountValues,   \* the values of insert_while_away_count (2^32 in the code)
  MaxNow,        \* bound: the clock
  MaxDelta,      \* bound: the deltas of the list
  TimePasses,    \* the places of the timer thread where the clock may advance
  None           \* no timer, no thread

ASSUME SetsAssumption ==
  /\ None \notin Clients \cup Timers
  /\ Resident \in Seq(Timers) /\ IsInjective(Resident)
  /\ Adders \cup Removers \cup Reschedulers \cup Changers \subseteq Clients
  /\ CallbackCalls \subseteq {"add", "remove", "stop", "reschedule"}
  /\ PendingRemoval \in BOOLEAN
ASSUME NumbersAssumption ==
  /\ Delays \subseteq Nat /\ Frequencies \subseteq Nat
  /\ CountValues \in Nat \ {0} /\ MaxNow \in Nat /\ MaxDelta \in Nat

VARIABLES
  now,           \* timeGetTime64
  timers, delta, \* the list, and the deltas
  last_tick,     \* the time the first delta counts from
  frequency,     \* [timer]
  flags,         \* [timer] the word with bRescheduled and bRemoved
  pool,          \* the timers whose record is allocated
  add_timer,     \* the timer that waits to be added, or None
  del_timer,     \* the timer that waits to be removed, or None
  change,        \* the owner of cs_timer_change, or None
  csGrab,        \* the client that is inside csGrab between two steps, or None
  away_in_timer, insert_while_away_count,
  current_timer, CurrentTimerID,
  event,         \* the timer thread's wake event
  tpc,           \* where the timer thread is
  timer,         \* its local variable: the timer it inserts, removes or dispatches
  word,          \* the flags it has read to set bRemoved
  newtick,       \* its local variable, and this_tick
  wakeAt,        \* when its sleep ends
  behind,        \* auxiliary: how old newtick was when the sleep was computed
  call,          \* [client] the call it is in
  made,          \* the timers that have been made
  due,           \* [timer] when it was to run, at its last insertion
  stopped,       \* the timers whose RemoveTimer has returned
  fault          \* a record that is not there has been accessed

clock     == <<now, newtick, wakeAt, behind>>
list      == <<timers, delta, last_tick, due>>
records   == <<frequency, flags, pool, made>>
slots     == <<add_timer, del_timer, change>>
away      == <<away_in_timer, insert_while_away_count>>
current   == <<current_timer, CurrentTimerID>>
place     == <<tpc, timer, word>>
seen      == <<stopped, fault>>
vars == <<clock, list, records, slots, csGrab, away, current, event, place, call, seen>>

Places == {"top", "forever", "adding", "inserting", "deleting", "removing", "ticking",
           "looking", "grabbed", "dispatching", "leaving", "callback", "stopping", "back",
           "again", "putting", "pausing", "asleep"}

Steps == {"idle", "insert", "count", "counting", "recheck", "inserting", "uncount",
          "uncounting", "change", "changing", "wake", "found", "mark", "marking", "walk"}

Flags   == [rescheduled : BOOLEAN, removed : BOOLEAN]
NoFlags == [rescheduled |-> FALSE, removed |-> FALSE]

\* A call of a client: placed, that it does not hold its timer any more; word and
\* count, what it has read of the timer's flags and of insert_while_away_count;
\* head, where ChangeTimerEx's walk begins.
Calls == [at : Steps, op : {"none", "add", "remove", "reschedule", "change"},
          timer : Timers \cup {None}, delay : Delays \cup {0},
          frequency : Frequencies \cup {0}, placed : BOOLEAN,
          count : 0..(CountValues - 1), word : Flags, head : Timers \cup {None}]
NoCall == [at |-> "idle", op |-> "none", timer |-> None, delay |-> 0, frequency |-> 0,
           placed |-> FALSE, count |-> 0, word |-> NoFlags, head |-> None]

\* Every variable holds a value of its kind.  The timers of the
\* list differ, and those with a record have been made.
TypeOK ==
  /\ now \in 0..MaxNow /\ newtick \in 0..now /\ last_tick \in Int /\ wakeAt \in Nat
  /\ behind \in Nat
  /\ timers \in Seq(Timers) /\ IsInjective(timers)
  /\ delta \in [Timers -> Int] /\ due \in [Timers -> Nat]
  /\ frequency \in [Timers -> Frequencies \cup {0}]
  /\ flags \in [Timers -> Flags] /\ word \in Flags
  /\ pool \subseteq made /\ made \subseteq Timers
  /\ {add_timer, del_timer, current_timer, CurrentTimerID, timer} \subseteq Timers \cup {None}
  /\ {change, csGrab} \subseteq Clients \cup {None}
  /\ away_in_timer \in BOOLEAN /\ insert_while_away_count \in 0..(CountValues - 1)
  /\ event \in BOOLEAN /\ fault \in BOOLEAN
  /\ tpc \in Places
  /\ call \in [Clients -> Calls]
  /\ stopped \subseteq made

Init ==
  /\ now = 0 /\ last_tick = 0 /\ newtick = 0 /\ wakeAt = 0 /\ behind = 0
  /\ timers = Resident
  /\ made = ToSet(Resident) /\ pool = made
  /\ \E d \in Delays :
       /\ delta = [t \in Timers |-> IF timers # <<>> /\ t = timers[1] THEN d ELSE 0]
       /\ due = [t \in Timers |-> IF t \in made THEN d ELSE 0]
  /\ frequency \in [Timers -> Frequencies \cup {0}]
  /\ \A t \in Timers : frequency[t] = 0 <=> t \notin made
  /\ flags = [t \in Timers |-> NoFlags] /\ word = NoFlags
  /\ add_timer = None /\ del_timer = None /\ change = None /\ csGrab = None
  /\ away_in_timer = FALSE /\ insert_while_away_count = 0
  /\ current_timer = None /\ CurrentTimerID = None
  /\ event = FALSE /\ tpc = "top" /\ timer = None
  /\ call = [c \in Clients |-> NoCall]
  /\ stopped = {} /\ fault = FALSE

-----------------------------------------------------------------------------
(***************************************************************************)
(* The list, under csGrab.                                                 *)
(***************************************************************************)

\* (Mutation) The delta is taken to count from last_tick.
DoInsertTimerFromTick(t) ==
  LET l == Linked(timers, delta, t, delta[t]) IN
  /\ csGrab = None
  /\ timers' = l.order
  /\ delta' = l.delta
  /\ due' = [due EXCEPT ![t] = now + delta[t]]

\* DoInsertTimer: t is to run its delta from now.
DoInsertTimer(t) ==
  LET l == Linked(timers, delta, t, delta[t] + (now - last_tick)) IN
  /\ csGrab = None
  /\ timers' = l.order
  /\ delta' = l.delta
  /\ due' = [due EXCEPT ![t] = now + delta[t]]

\* DoRemoveTimer: a timer of the pool that is not in the list has no `me'.
DoRemoveTimer(t) ==
  /\ csGrab = None
  /\ fault' = (t \in pool /\ ~Listed(timers, t))
  /\ pool' = pool \ {t}
  /\ IF Listed(timers, t)
     THEN LET l == Unlinked(timers, delta, t, FALSE) IN timers' = l.order /\ delta' = l.delta
     ELSE UNCHANGED <<timers, delta>>

\* InternalRescheduleTimerEx of a timer that is in the list: it wakes the timer
\* thread when t has become the first.
Regrab(t, d) ==
  LET out == Unlinked(timers, delta, t, FALSE)
      in  == Linked(out.order, out.delta, t, d + (now - last_tick))
  IN
  /\ timers' = in.order
  /\ delta' = in.delta
  /\ due' = [due EXCEPT ![t] = now + d]
  /\ event' = (event \/ in.order[1] = t)

\* The timers whose ID AddTimer has returned.
Known == {t \in made : \A c \in Clients : call[c].op = "add" => call[c].timer # t}

\* The timers that may be removed.
Removable == {t \in Known : ~Contains(Resident, t) /\ (PendingRemoval \/ t # add_timer)}

\* AddTimerExx, up to InsertTimer.
Make(t, start, f) ==
  /\ t \notin made
  /\ made' = made \cup {t}
  /\ pool' = pool \cup {t}
  /\ frequency' = [frequency EXCEPT ![t] = f]
  /\ flags' = [flags EXCEPT ![t] = NoFlags]

-----------------------------------------------------------------------------
(***************************************************************************)
(* The clients.  GoTo leaves what a call has read as it was; Return ends   *)
(* the call.                                                               *)
(***************************************************************************)
GoTo(c, step) == call' = [call EXCEPT ![c].at = step]
Return(c)     == call' = [call EXCEPT ![c] = NoCall]

\* AddTimerExx: the timer's delta is the time until its first run.
AddCall(c) ==
  /\ c \in Adders /\ call[c].at = "idle"
  /\ \E t \in Timers, d \in Delays, f \in Frequencies :
       /\ Make(t, d, f)
       /\ delta' = [delta EXCEPT ![t] = d]
       /\ call' = [call EXCEPT ![c] = [NoCall EXCEPT !.at = "insert", !.op = "add", !.timer = t]]
  /\ UNCHANGED <<clock, timers, last_tick, due, slots, csGrab, away, current, event, place, seen>>

\* InsertTimer looks whether the timer thread is away in a callback.
CheckAway(c) ==
  /\ call[c].at = "insert"
  /\ GoTo(c, IF away_in_timer THEN "count" ELSE "change")
  /\ UNCHANGED <<clock, list, records, slots, csGrab, away, current, event, place, seen>>

\* insert_while_away_count++ and --, each a read and a write.
ReadCount(c) ==
  /\ call[c].at \in {"count", "uncount"}
  /\ call' = [call EXCEPT ![c].count = insert_while_away_count,
                          ![c].at = IF @ = "count" THEN "counting" ELSE "uncounting"]
  /\ UNCHANGED <<clock, list, records, slots, csGrab, away, current, event, place, seen>>

CountUp(c) ==
  /\ call[c].at = "counting"
  /\ insert_while_away_count' = (call[c].count + 1) % CountValues
  /\ call' = [call EXCEPT ![c].at = "recheck", ![c].count = 0]
  /\ UNCHANGED <<clock, list, records, slots, csGrab, away_in_timer, current, event, place, seen>>

CountDown(c) ==
  /\ call[c].at = "uncounting"
  /\ insert_while_away_count' = (call[c].count + CountValues - 1) % CountValues
  /\ IF call[c].placed THEN Return(c)
     ELSE call' = [call EXCEPT ![c].at = "change", ![c].count = 0]
  /\ UNCHANGED <<clock, list, records, slots, csGrab, away_in_timer, current, event, place, seen>>

\* The timer thread may have come back before it could see the count.
Recheck(c) ==
  /\ call[c].at = "recheck"
  /\ GoTo(c, IF away_in_timer THEN "inserting" ELSE "uncount")
  /\ UNCHANGED <<clock, list, records, slots, csGrab, away, current, event, place, seen>>

InsertAway(c) ==
  /\ call[c].at = "inserting"
  /\ DoInsertTimer(call[c].timer)
  /\ call' = [call EXCEPT ![c].at = "uncount", ![c].placed = TRUE]
  /\ UNCHANGED <<clock, last_tick, records, slots, csGrab, away, current, event, place, seen>>

EnterChange(c) ==
  /\ call[c].at = "change" /\ change = None
  /\ change' = c
  /\ GoTo(c, "changing")
  /\ UNCHANGED <<clock, list, records, add_timer, del_timer, csGrab, away, current, event,
                 place, seen>>

\* Another timer is in the slot: the timer thread is woken, again and again.
SpinForSlot(c) ==
  /\ call[c].at = "changing" /\ call[c].op = "add" /\ add_timer # None
  /\ event' = TRUE
  /\ UNCHANGED <<clock, list, records, slots, csGrab, away, current, place, call, seen>>

\* (Mutation) The slot is not waited for.
PutAnyway(c) ==
  /\ call[c].at = "changing" /\ call[c].op = "add"
  /\ add_timer' = call[c].timer
  /\ change' = None
  /\ call' = [call EXCEPT ![c].at = "wake", ![c].placed = TRUE]
  /\ UNCHANGED <<clock, list, records, del_timer, csGrab, away, current, event, place, seen>>

Put(c) ==
  /\ call[c].at = "changing" /\ call[c].op = "add" /\ add_timer = None
  /\ add_timer' = call[c].timer
  /\ change' = None
  /\ call' = [call EXCEPT ![c].at = "wake", ![c].placed = TRUE]
  /\ UNCHANGED <<clock, list, records, del_timer, csGrab, away, current, event, place, seen>>

\* RemoveTimerEx of a thread that is not the timer thread.
RemoveCall(c) ==
  /\ c \in Removers /\ call[c].at = "idle"
  /\ \E t \in Removable :
       call' = [call EXCEPT ![c] = [NoCall EXCEPT !.at = "change", !.op = "remove", !.timer = t]]
  /\ UNCHANGED <<clock, list, records, slots, csGrab, away, current, event, place, seen>>

Schedule(c) ==
  /\ call[c].at = "changing" /\ call[c].op = "remove" /\ del_timer = None
  /\ del_timer' = call[c].timer
  /\ change' = None
  /\ GoTo(c, "wake")
  /\ UNCHANGED <<clock, list, records, add_timer, csGrab, away, current, event, place, seen>>

\* (Mutation) The timer thread is not woken.
ReturnAsleep(c) ==
  /\ call[c].at = "wake"
  /\ event' = event
  /\ stopped' = stopped \cup (IF call[c].op = "remove" THEN {call[c].timer} ELSE {})
  /\ Return(c)
  /\ UNCHANGED <<clock, list, records, slots, csGrab, away, current, place, fault>>

\* The timer thread is woken, for a timer in a slot.
Wake(c) ==
  /\ call[c].at = "wake"
  /\ event' = TRUE
  /\ stopped' = stopped \cup (IF call[c].op = "remove" THEN {call[c].timer} ELSE {})
  /\ Return(c)
  /\ UNCHANGED <<clock, list, records, slots, csGrab, away, current, place, fault>>

\* RescheduleTimerEx, under csGrab: the timer is in the list, or may be current.
RescheduleCall(c) ==
  /\ c \in Reschedulers /\ call[c].at = "idle" /\ csGrab = None
  /\ \E t \in Known, d \in Delays :
       IF Listed(timers, t)
       THEN Regrab(t, d) /\ UNCHANGED <<csGrab, call>>
       ELSE /\ current_timer # None
            /\ csGrab' = c
            /\ call' = [call EXCEPT ![c] = [NoCall EXCEPT !.at = "found", !.op = "reschedule",
                                                          !.timer = t, !.delay = d]]
            /\ UNCHANGED <<timers, delta, due, event>>
  /\ UNCHANGED <<clock, last_tick, records, slots, away, current, place, seen>>

\* current_timer is read again for its ID.
FindCurrent(c) ==
  /\ call[c].at = "found"
  /\ fault' = (current_timer = None)
  /\ IF current_timer = call[c].timer
     THEN GoTo(c, "mark") /\ UNCHANGED csGrab
     ELSE Return(c) /\ csGrab' = None
  /\ UNCHANGED <<clock, list, records, slots, away, current, event, place, stopped>>

\* (Mutation) The timer is inserted although it was not grabbed.
MarkInserting(c) ==
  LET t == call[c].timer
      l == Linked(timers, delta, t, call[c].delay + (now - last_tick))
  IN
  /\ call[c].at = "mark"
  /\ fault' = (t \notin pool)
  /\ timers' = l.order
  /\ delta' = l.delta
  /\ csGrab' = None
  /\ Return(c)
  /\ UNCHANGED <<clock, last_tick, due, records, slots, away, current, event, place, stopped>>

\* InternalRescheduleTimerEx of a timer that is not in the list.  If its callback
\* runs, bRescheduled is set: a read and a write of the word of its flags.
Mark(c) ==
  LET t == call[c].timer IN
  /\ call[c].at = "mark"
  /\ fault' = (t \notin pool)
  /\ IF away_in_timer /\ CurrentTimerID = t
     THEN /\ call' = [call EXCEPT ![c].at = "marking", ![c].word = flags[t]]
          /\ UNCHANGED <<delta, csGrab>>
     ELSE /\ delta' = [delta EXCEPT ![t] = call[c].delay]
          /\ csGrab' = None
          /\ Return(c)
  /\ UNCHANGED <<clock, timers, last_tick, due, records, slots, away, current, event, place,
                 stopped>>

MarkRescheduled(c) ==
  LET t == call[c].timer IN
  /\ call[c].at = "marking"
  /\ fault' = (t \notin pool)
  /\ flags' = [flags EXCEPT ![t] = [call[c].word EXCEPT !.rescheduled = TRUE]]
  /\ delta' = [delta EXCEPT ![t] = call[c].delay]
  /\ csGrab' = None
  /\ Return(c)
  /\ UNCHANGED <<clock, timers, last_tick, due, frequency, pool, made, slots, away, current,
                 event, place, stopped>>

\* ChangeTimerEx reads the head of the list before it enters csGrab.
ChangeCall(c) ==
  /\ c \in Changers /\ call[c].at = "idle" /\ timers # <<>>
  /\ \E t \in Known, d \in Delays, f \in Frequencies :
       call' = [call EXCEPT ![c] = [NoCall EXCEPT !.at = "walk", !.op = "change", !.timer = t,
                                      !.delay = d, !.frequency = f, !.head = timers[1]]]
  /\ UNCHANGED <<clock, list, records, slots, csGrab, away, current, event, place, seen>>

\* The timers that a walk from the record h meets: it ends at a record that has
\* been taken out of the list.
From(h) == {h} \cup {t \in ToSet(timers) : \E i, j \in 1..Len(timers) :
                       timers[i] = h /\ timers[j] = t /\ i < j}

\* A timer that the walk does not meet is left as it is.
Walk(c) ==
  LET t == call[c].timer IN
  /\ call[c].at = "walk" /\ csGrab = None
  /\ fault' = (call[c].head \notin pool)
  /\ frequency' = IF t \in From(call[c].head)
                  THEN [frequency EXCEPT ![t] = call[c].frequency] ELSE frequency
  /\ IF t \in From(call[c].head) /\ Listed(timers, t)
     THEN Regrab(t, call[c].delay) ELSE UNCHANGED <<timers, delta, due, event>>
  /\ IF t \in From(call[c].head) /\ ~Listed(timers, t)
     THEN csGrab' = c /\ GoTo(c, "mark")
     ELSE Return(c) /\ UNCHANGED csGrab
  /\ UNCHANGED <<clock, last_tick, flags, pool, made, slots, away, current, place, stopped>>

-----------------------------------------------------------------------------
(***************************************************************************)
(* The timer thread, in ProcessTimers.                                     *)
(***************************************************************************)
Top ==
  /\ tpc = "top"
  /\ tpc' = IF add_timer = None /\ timers = <<>> THEN "forever" ELSE "adding"
  /\ UNCHANGED <<clock, list, records, slots, csGrab, away, current, event, timer, word, call, seen>>

\* The sleep with no timer ends with a wake; time is known from there on.
WakeForever ==
  /\ tpc = "forever" /\ event
  /\ event' = FALSE
  /\ last_tick' = now
  /\ tpc' = "top"
  /\ UNCHANGED <<clock, timers, delta, due, records, slots, csGrab, away, current, timer, word,
                 call, seen>>

\* (Mutation) The slot is not emptied.
TakeAddLeaving ==
  /\ tpc = "adding"
  /\ tpc' = IF add_timer = None THEN "deleting" ELSE "inserting"
  /\ timer' = add_timer
  /\ add_timer' = add_timer
  /\ UNCHANGED <<clock, list, records, del_timer, change, csGrab, away, current, event, word,
                 call, seen>>

TakeAdd ==
  /\ tpc = "adding"
  /\ tpc' = IF add_timer = None THEN "deleting" ELSE "inserting"
  /\ timer' = add_timer
  /\ add_timer' = None
  /\ UNCHANGED <<clock, list, records, del_timer, change, csGrab, away, current, event, word,
                 call, seen>>

InsertAdded ==
  /\ tpc = "inserting"
  /\ DoInsertTimer(timer)
  /\ tpc' = "deleting"
  /\ UNCHANGED <<clock, last_tick, records, slots, csGrab, away, current, event, timer, word,
                 call, seen>>

TakeDel ==
  /\ tpc = "deleting"
  /\ tpc' = IF del_timer = None THEN "ticking" ELSE "removing"
  /\ timer' = del_timer
  /\ del_timer' = None
  /\ UNCHANGED <<clock, list, records, add_timer, change, csGrab, away, current, event, word,
                 call, seen>>

RemoveScheduled ==
  /\ tpc = "removing"
  /\ DoRemoveTimer(timer)
  /\ tpc' = "ticking"
  /\ UNCHANGED <<clock, last_tick, due, frequency, flags, made, slots, csGrab, away, current,
                 event, timer, word, call, stopped>>

ReadTick ==
  /\ tpc = "ticking"
  /\ newtick' = now
  /\ tpc' = "looking"
  /\ UNCHANGED <<now, wakeAt, behind, list, records, slots, csGrab, away, current, event, timer, word,
                 call, seen>>

Due == timers # <<>> /\ newtick - last_tick >= delta[timers[1]]

\* The first timer is due: it is taken out, and what follows it counts from the
\* last_tick that AdvanceTick sets, without csGrab.
GrabDue ==
  /\ tpc = "looking" /\ csGrab = None /\ Due
  /\ timer' = timers[1]
  /\ timers' = Unlinked(timers, delta, timers[1], TRUE).order
  /\ delta' = Unlinked(timers, delta, timers[1], TRUE).delta
  /\ tpc' = "grabbed"
  /\ UNCHANGED <<clock, last_tick, due, records, slots, csGrab, away, current, event, word, call,
                 seen>>

NoneDue ==
  /\ tpc = "looking" /\ csGrab = None /\ ~Due
  /\ timer' = IF timers = <<>> THEN None ELSE timers[1]
  /\ tpc' = IF timers = <<>> THEN "top" ELSE "pausing"
  /\ UNCHANGED <<clock, list, records, slots, csGrab, away, current, event, word, call, seen>>

AdvanceTick ==
  /\ tpc = "grabbed"
  /\ last_tick' = last_tick + delta[timer]
  /\ tpc' = "dispatching"
  /\ UNCHANGED <<clock, timers, delta, due, records, slots, csGrab, away, current, event, timer,
                 word, call, seen>>

SetCurrent ==
  /\ tpc = "dispatching"
  /\ current_timer' = timer
  /\ flags' = [flags EXCEPT ![timer].rescheduled = FALSE]
  /\ tpc' = "leaving"
  /\ UNCHANGED <<clock, list, frequency, pool, made, slots, csGrab, away, CurrentTimerID, event,
                 timer, word, call, seen>>

\* The timer thread is away, in the callback of timer.
Depart ==
  /\ tpc = "leaving"
  /\ away_in_timer' = TRUE
  /\ CurrentTimerID' = timer
  /\ tpc' = "callback"
  /\ UNCHANGED <<clock, list, records, slots, csGrab, insert_while_away_count, current_timer,
                 event, timer, word, call, stopped, fault>>

\* What a callback does.  InsertTimer of the timer thread:
CallbackAdd ==
  /\ tpc = "callback" /\ "add" \in CallbackCalls /\ csGrab = None
  /\ \E t \in Timers, d \in Delays, f \in Frequencies :
       LET l == Linked(timers, delta, t, d + (now - last_tick)) IN
       /\ Make(t, d, f)
       /\ timers' = l.order
       /\ delta' = l.delta
       /\ due' = [due EXCEPT ![t] = now + d]
       /\ event' = (event \/ l.order[1] = t)
  /\ UNCHANGED <<clock, last_tick, slots, csGrab, away, current, place, call, seen>>

\* (Mutation) The timer that is called back is removed like another.
CallbackRemoveAny ==
  /\ tpc = "callback" /\ "remove" \in CallbackCalls
  /\ \E t \in Removable : DoRemoveTimer(t) /\ stopped' = stopped \cup {t}
  /\ UNCHANGED <<clock, last_tick, due, frequency, flags, made, slots, csGrab, away, current,
                 event, place, call>>

\* RemoveTimerEx of another timer.
CallbackRemove ==
  /\ tpc = "callback" /\ "remove" \in CallbackCalls
  /\ \E t \in Removable \ {CurrentTimerID} : DoRemoveTimer(t) /\ stopped' = stopped \cup {t}
  /\ UNCHANGED <<clock, last_tick, due, frequency, flags, made, slots, csGrab, away, current,
                 event, place, call>>

\* RemoveTimerEx of the timer that is called back: a read and a write of its flags.
CallbackStop ==
  /\ tpc = "callback" /\ "stop" \in CallbackCalls
  /\ timer \in Removable
  /\ word' = flags[current_timer]
  /\ tpc' = "stopping"
  /\ UNCHANGED <<clock, list, records, slots, csGrab, away, current, event, timer, call, seen>>

MarkRemoved ==
  /\ tpc = "stopping"
  /\ flags' = [flags EXCEPT ![current_timer] = [word EXCEPT !.removed = TRUE]]
  /\ word' = NoFlags
  /\ stopped' = stopped \cup {current_timer}
  /\ tpc' = "callback"
  /\ UNCHANGED <<clock, list, frequency, pool, made, slots, csGrab, away, current, event, timer,
                 call, fault>>

\* RescheduleTimerEx, of a timer in the list or of the one that is called back.
CallbackReschedule ==
  /\ tpc = "callback" /\ "reschedule" \in CallbackCalls /\ csGrab = None
  /\ \E d \in Delays :
       \/ /\ \E t \in Known \cap ToSet(timers) : Regrab(t, d)
          /\ UNCHANGED flags
       \/ /\ flags' = [flags EXCEPT ![current_timer].rescheduled = TRUE]
          /\ delta' = [delta EXCEPT ![current_timer] = d]
          /\ UNCHANGED <<timers, due, event>>
  /\ UNCHANGED <<clock, last_tick, frequency, pool, made, slots, csGrab, away, current, place,
                 call, seen>>

\* A callback that calls Idle changes nothing by it: the ProcessTimers that Idle
\* calls returns at once, as a timer is current.
CallbackReturn ==
  /\ tpc = "callback"
  /\ away_in_timer' = FALSE
  /\ tpc' = "back"
  /\ UNCHANGED <<clock, list, records, slots, csGrab, insert_while_away_count, current, event,
                 timer, word, call, seen>>

\* (Mutation) They are not waited for.
DrainAtOnce ==
  /\ tpc = "back"
  /\ current_timer' = None
  /\ tpc' = "again"
  /\ UNCHANGED <<clock, list, records, slots, csGrab, away, CurrentTimerID, event, timer, word,
                 call, seen>>

\* Those who insert while the thread is away are waited for.
Drain ==
  /\ tpc = "back" /\ insert_while_away_count = 0
  /\ current_timer' = None
  /\ tpc' = "again"
  /\ UNCHANGED <<clock, list, records, slots, csGrab, away, CurrentTimerID, event, timer, word,
                 call, seen>>

Late == newtick - last_tick > frequency[timer]

\* (Mutation) bRemoved is not looked at.
AgainAnyway ==
  /\ tpc = "again" /\ (frequency[timer] # 0 \/ flags[timer].rescheduled)
  /\ flags' = [flags EXCEPT ![timer].rescheduled = FALSE]
  /\ delta' = IF flags[timer].rescheduled THEN delta
              ELSE [delta EXCEPT ![timer] = IF Late THEN newtick - last_tick + 1
                                            ELSE frequency[timer]]
  /\ tpc' = "putting"
  /\ UNCHANGED <<clock, timers, last_tick, due, frequency, pool, made, slots, csGrab, away,
                 current, event, timer, word, call, seen>>

\* The timer is to run again.
Again ==
  /\ tpc = "again" /\ ~flags[timer].removed
  /\ frequency[timer] # 0 \/ flags[timer].rescheduled
  /\ flags' = [flags EXCEPT ![timer].rescheduled = FALSE]
  /\ delta' = IF flags[timer].rescheduled THEN delta
              ELSE [delta EXCEPT ![timer] = IF Late THEN newtick - last_tick + 1
                                            ELSE frequency[timer]]
  /\ tpc' = "putting"
  /\ UNCHANGED <<clock, timers, last_tick, due, frequency, pool, made, slots, csGrab, away,
                 current, event, timer, word, call, seen>>

\* The timer has been removed, or was a one shot timer.
Free ==
  /\ tpc = "again"
  /\ flags[timer].removed \/ (frequency[timer] = 0 /\ ~flags[timer].rescheduled)
  /\ pool' = pool \ {timer}
  /\ timer' = None
  /\ tpc' = "looking"
  /\ UNCHANGED <<clock, list, frequency, flags, made, slots, csGrab, away, current, event, word,
                 call, seen>>

PutBack ==
  /\ tpc = "putting"
  /\ DoInsertTimer(timer)
  /\ timer' = None
  /\ tpc' = "looking"
  /\ UNCHANGED <<clock, last_tick, records, slots, csGrab, away, current, event, word, call, seen>>

\* (Mutation) What has passed since last_tick is not taken off.
PauseWhole ==
  LET last_sleep == delta[timer] IN
  /\ tpc = "pausing"
  /\ wakeAt' = now + (IF last_sleep < 0 THEN 1 ELSE last_sleep)
  /\ behind' = now - newtick
  /\ tpc' = IF last_sleep = 0 THEN "top" ELSE "asleep"
  /\ UNCHANGED <<now, newtick, list, records, slots, csGrab, away, current, event, timer, word,
                 call, seen>>

\* The sleep until the first timer, by what NoneDue found, without csGrab, and from
\* the tick that was read before the callbacks.
Pause ==
  LET last_sleep == delta[timer] - (newtick - last_tick) IN
  /\ tpc = "pausing"
  /\ wakeAt' = now + (IF last_sleep < 0 THEN 1 ELSE last_sleep)
  /\ behind' = now - newtick
  /\ tpc' = IF last_sleep = 0 THEN "top" ELSE "asleep"
  /\ UNCHANGED <<now, newtick, list, records, slots, csGrab, away, current, event, timer, word,
                 call, seen>>

WakeUp ==
  /\ tpc = "asleep" /\ (event \/ now >= wakeAt)
  /\ event' = FALSE
  /\ wakeAt' = 0 /\ behind' = 0
  /\ timer' = None
  /\ tpc' = "top"
  /\ UNCHANGED <<now, newtick, list, records, slots, csGrab, away, current, word, call, seen>>

Tick ==
  /\ tpc \in TimePasses /\ now < MaxNow
  /\ now' = now + 1
  /\ UNCHANGED <<newtick, wakeAt, behind, list, records, slots, csGrab, away, current, event, place,
                 call, seen>>

-----------------------------------------------------------------------------
Begin(c) == AddCall(c) \/ RemoveCall(c) \/ RescheduleCall(c) \/ ChangeCall(c)

Proceed(c) ==
  \/ CheckAway(c) \/ ReadCount(c) \/ CountUp(c) \/ CountDown(c) \/ Recheck(c) \/ InsertAway(c)
  \/ SpinForSlot(c) \/ Put(c) \/ Schedule(c) \/ Wake(c)
  \/ FindCurrent(c) \/ Mark(c) \/ MarkRescheduled(c) \/ Walk(c)

Callback == CallbackAdd \/ CallbackRemove \/ CallbackStop \/ CallbackReschedule

Process ==
  \/ Top \/ WakeForever \/ TakeAdd \/ InsertAdded \/ TakeDel \/ RemoveScheduled \/ ReadTick
  \/ GrabDue \/ NoneDue \/ AdvanceTick \/ SetCurrent \/ Depart \/ MarkRemoved \/ CallbackReturn
  \/ Drain \/ Again \/ Free \/ PutBack \/ Pause \/ WakeUp

\* A bound: ChangeTimerEx of a timer that is being dispatched can drive last_tick and
\* the deltas away from the clock, a step at a time, without end.
NearClock ==
  /\ last_tick \in 0..MaxNow
  /\ \A t \in ToSet(timers) : delta[t] <= MaxDelta

\* What follows an access to a record that is not there is not modelled.
Next ==
  /\ ~fault /\ NearClock
  /\ \/ Process \/ Callback \/ Tick
     \/ \E c \in Clients : Begin(c) \/ EnterChange(c) \/ Proceed(c)

Spec == Init /\ [][Next]_vars

\* Threads that are in a call, and the timer thread, go on, callbacks return, time
\* passes, and a thread gets into cs_timer_change when it stays free.
FairSpec ==
  /\ Spec
  /\ WF_vars(Next /\ Process) /\ WF_vars(Next /\ Tick)
  /\ \A c \in Clients : WF_vars(Next /\ Proceed(c)) /\ WF_vars(Next /\ EnterChange(c))

-----------------------------------------------------------------------------
(***************************************************************************)
(* Properties.                                                             *)
(***************************************************************************)
Handling == {"inserting", "grabbed", "dispatching", "leaving", "callback", "stopping", "back",
             "again", "putting"}
Dispatching == {"grabbed", "dispatching", "leaving", "callback", "stopping", "back"}

PlacesOf(t) ==
  {<<"hand", c>> : c \in {d \in Clients : call[d].op = "add" /\ call[d].timer = t
                                            /\ ~call[d].placed}}
  \cup {<<"list", i>> : i \in {j \in 1..Len(timers) : timers[j] = t}}
  \cup (IF add_timer = t THEN {<<"slot", None>>} ELSE {})
  \cup (IF timer = t /\ tpc \in Handling THEN {<<"thread", None>>} ELSE {})

\* A timer whose record is allocated is in exactly one place - the hand of the thread
\* that adds it, the slot, the list, the timer thread's hand - and a freed one in
\* none: none is spliced in twice, lost between two places, or linked when freed.
InOnePlace ==
  \A t \in Timers : Cardinality(PlacesOf(t)) = (IF t \in pool THEN 1 ELSE 0)

\* The deltas up to a timer of the list add up to the time it was to run, whatever
\* was inserted before it, taken out, or grabbed to be processed.
OnSchedule ==
  LET base == last_tick + (IF tpc = "grabbed" THEN delta[timer] ELSE 0) IN
  \A i \in 1..Len(timers) : base + Offset(timers, delta, i) = due[timers[i]]

\* A timer is not called back before the time it was to run.
NeverEarly == tpc \in Dispatching => due[timer] <= newtick

\* No record that has been freed, or link that is NULL, is used.
NoFault == ~fault

\* No callback of a timer starts after its RemoveTimer has returned.
StopsFiring == [][tpc = "leaving" /\ tpc' = "callback" => timer \notin stopped]_vars

\* When the timer thread goes on after a callback, nobody inserts by the away path.
AwayIsOver ==
  tpc \notin {"callback", "stopping", "back"} => \A c \in Clients : call[c].at # "inserting"

\* The timer thread computes its sleep from the tick it read before the callbacks and
\* from a delta it reads without csGrab.  Asleep and not about to be woken, it has a
\* timer to wake up for, and is late for the first of the list by no more than the time
\* that passed between that tick and the sleep.
BoundedOversleep ==
  tpc = "asleep" /\ ~event => timers # <<>> /\ wakeAt <= due[timers[1]] + behind

\* Once no thread makes a new call, every call of a client returns: none is left waiting
\* for a slot that the timer thread does not empty, or for cs_timer_change behind it.
CallsReturn ==
  (<>[][\A c \in Clients : ~Begin(c)]_vars)
    => \A c \in Clients : call[c].at # "idle" ~> call[c].at = "idle"

Owed(t) == add_timer = t \/ (Listed(timers, t) /\ due[t] <= now)

\* A timer in the slot, or that is to run, is called back, or removed, or set to a
\* later time.
DueTimersFire == \A t \in Timers : Owed(t) ~> ~Owed(t)

=============================================================================
