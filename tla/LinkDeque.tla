----------------------------- MODULE LinkDeque ------------------------------
(***************************************************************************)
(* What a link queue or a data queue promises threads that share it: a     *)
(* sequence, and calls that each act on it once, at one moment between the *)
(* call and its return.  LinkQueue implements it.                          *)
(***************************************************************************)
EXTENDS Integers, Sequences

CONSTANTS
  Threads,
  Links, NoLink,
  Requests,  \* the calls: [op, link, idx]
  Pending    \* the call has not returned

VARIABLES
  items,  \* what is in the queue
  open,   \* there is a queue, or a call that needs one makes it
  asked,  \* [thread] its call, or its last one
  got     \* [thread] what that returned

Init ==
  /\ items = <<>> /\ open \in BOOLEAN
  /\ asked \in [Threads -> Requests]
  /\ got = [t \in Threads |-> NoLink]

Call(t) ==
  /\ got[t] # Pending
  /\ \E q \in Requests : asked' = [asked EXCEPT ![t] = q]
  /\ got' = [got EXCEPT ![t] = Pending]
  /\ UNCHANGED <<items, open>>

Asks(t, op) == got[t] = Pending /\ asked[t].op = op
Return(t, l) == got' = [got EXCEPT ![t] = l] /\ UNCHANGED asked

\* A link that is NULL is not taken.
Taken(t) == open /\ asked[t].link # NoLink

Enque(t) ==
  /\ Asks(t, "enque") /\ Return(t, NoLink) /\ UNCHANGED open
  /\ items' = IF Taken(t) THEN Append(items, asked[t].link) ELSE items

Preque(t) ==
  /\ Asks(t, "preque") /\ Return(t, NoLink) /\ UNCHANGED open
  /\ items' = IF Taken(t) THEN <<asked[t].link>> \o items ELSE items

Deque(t) ==
  /\ Asks(t, "deque") /\ UNCHANGED open
  /\ IF items = <<>>
     THEN Return(t, NoLink) /\ UNCHANGED items
     ELSE Return(t, Head(items)) /\ items' = Tail(items)

Unque(t) ==
  /\ Asks(t, "unque") /\ UNCHANGED open
  /\ IF items = <<>>
     THEN Return(t, NoLink) /\ UNCHANGED items
     ELSE Return(t, items[Len(items)]) /\ items' = SubSeq(items, 1, Len(items) - 1)

Index(i) == IF i >= 0 THEN i + 1 ELSE Len(items) + 1 + i
Peek(t) ==
  /\ Asks(t, "peek") /\ UNCHANGED <<items, open>>
  /\ Return(t, IF Index(asked[t].idx) \in 1..Len(items) THEN items[Index(asked[t].idx)] ELSE NoLink)

Clear(t) ==
  /\ Asks(t, "empty") /\ Return(t, NoLink) /\ UNCHANGED open
  /\ items' = <<>>

\* What is in the queue is gone some time before the call returns.
Drop(t) == Asks(t, "delete") /\ items' = <<>> /\ UNCHANGED <<open, asked, got>>
Delete(t) ==
  /\ Asks(t, "delete") /\ items = <<>> /\ Return(t, NoLink)
  /\ open' \in {open, FALSE} /\ UNCHANGED items

Next == \E t \in Threads :
  \/ Call(t) \/ Enque(t) \/ Preque(t) \/ Deque(t) \/ Unque(t) \/ Peek(t)
  \/ Clear(t) \/ Drop(t) \/ Delete(t)

Spec == Init /\ [][Next]_<<items, open, asked, got>>
=============================================================================
