-------------------------- MODULE NetClientProofs --------------------------
(***************************************************************************)
(* Theorems about NetClient, for any number of clients and threads, and    *)
(* their proofs.  The code does not keep the lists intact by itself:       *)
(* AddActive works on one without csNetwork, and a close may come late.    *)
(* What the invariant needs of that is Orderly, below; OrderlyAlone shows  *)
(* that it holds where no client is opened while others are closed, and    *)
(* what can fail otherwise is proved for those instances.                  *)
(***************************************************************************)
EXTENDS NetListsProofs

(***************************************************************************)
(* The invariant                                                           *)
(***************************************************************************)

\* The call k is opening the client c.
Fresh(k, c) == k.at \in {"opening", "adding", "linking"} /\ k.pc = c

\* A client is not closed once it has been opened anew: of a client that InternalRemoveClient is
\* called for, none is being opened, and a read event closes only what is not active.
NoLateClose ==
  \A t \in Threads : thread[t].at = "entering" =>
    /\ \A u \in Openers : ~Fresh(thread[u], thread[t].pc)
    /\ t \in EventThreads => "CF_ACTIVE" \notin flags[thread[t].pc]

\* While AddActive, which is done without csNetwork, links a client in, no other thread links
\* one in, or is about to take one out of the list of active ones.
UndisturbedOpen ==
  \A t \in Openers : thread[t].at = "linking" =>
    \A u \in Threads \ {t} : thread[u].at \notin {"linking", "callback"}

\* What the code leaves to chance, and the invariant needs: without it the lists are cut, and a client
\* that is being opened is closed.
Orderly == NoLateClose /\ UndisturbedOpen

\* Sequences of channels.
Nil == <<>>
Only(ch) == <<ch>>
Both == <<0, 1>>
\* The places of InternalRemoveClient at which the client is locked.
Order == {"locked", "notify", "callback"}

\* The call locks both channels, and has locked what it no longer has to.
Relocks(k) == \/ k.todo = Both /\ k.done = Nil
              \/ k.todo = Only(1) /\ k.done = Only(0)

\* Where a call may go on after NetworkUnlock.
Onwards == {"idle", "refused", "finish", "leave"}

\* Who may be at a place, and that the call has a client there.
Role(t, k) ==
  /\ k.at \notin {"idle", "getting"} => k.pc \in Clients
  /\ k.at \in {"idle", "getting"} => k.pc = None /\ ~k.locked
  /\ k.locked => t \in EventThreads
  /\ k.at \in {"getting", "opening", "adding", "linking"} => t \in Openers
  /\ k.at \in {"lockRefused", "validate", "holding"} => t \in Lockers
  /\ k.at \in {"eventRefused", "event", "eventSocket", "reading", "unmark"} => t \in EventThreads
  /\ k.at \in {"refused", "locked", "notify", "callback", "finish"} => t \in Closers
  /\ k.at \in {"entering", "terminate", "leave"} => t \in Closers \cup EventThreads

\* What the call keeps where it locks, or has been refused.
Locking(t, k) ==
  /\ k.at = "lockRefused" =>
       /\ k.todo \in {Only(0), Only(1)} /\ k.done = Nil /\ k.ok = "validate" /\ k.no = "lockRefused"
  /\ k.at = "eventRefused" =>
       k.todo = Only(1) /\ k.done = Nil /\ k.ok = "event" /\ k.no = "eventRefused" /\ ~k.locked
  /\ k.at \in {"validate", "holding"} => k.done \in {Only(0), Only(1)}
  /\ k.at = "event" => k.done \in {Nil, Only(1)} /\ ~k.locked
  /\ k.at \in {"locking", "verifying"} =>
       \/ /\ k.ok = "validate" /\ k.no = "lockRefused" /\ t \in Lockers
          /\ k.todo \in {Only(0), Only(1)} /\ k.done = Nil
       \/ /\ k.ok = "event" /\ k.no = "eventRefused" /\ t \in EventThreads
          /\ k.todo = Only(1) /\ k.done = Nil /\ ~k.locked
       \/ k.ok = "locked" /\ k.no = "refused" /\ t \in Closers /\ Relocks(k)
       \/ k.ok = "terminate" /\ k.no = "leave" /\ t \in Closers /\ Relocks(k)

\* What the call keeps where it unlocks, or recycles.
Unlocking(t, k) ==
  /\ k.at \in {"unlocking", "unlocked"} =>
       /\ k.todo \in {Only(0), Only(1), Both} /\ k.ok \in Onwards
       /\ t \in EventThreads => k.ok = "idle" /\ k.todo = Only(1)
       /\ k.ok # "idle" => t \in Closers
  /\ k.at = "recheck" =>
       /\ k.todo \in {Only(0), Only(1)} /\ k.ok \in Onwards
       /\ t \in EventThreads => k.ok = "idle"
       /\ k.ok # "idle" => t \in Closers
  /\ k.at = "clearing" =>
       /\ k.todo \in {Nil, Only(0), Only(1)} /\ k.ok \in Onwards
       /\ t \in EventThreads => k.ok \in {"idle", "leave"} /\ (k.ok = "leave" => ~k.locked)
       /\ k.ok # "idle" => t \in Closers \cup EventThreads

\* The calls that the actions make, of all that TypeOK allows.
Shape(t, k) == Role(t, k) /\ Locking(t, k) /\ Unlocking(t, k)

\* The thread t, in call k, has the section of channel ch of c.
Owns(t, k, c, ch) ==
  /\ k.pc = c
  /\ \/ k.at \in {"locking", "verifying", "validate", "holding", "event"} /\ k.done = Only(ch)
     \/ k.at = "verifying" /\ (k.todo = Only(ch) \/ (k.todo = Both /\ ch = 0))
     \/ k.at \in {"opening", "adding", "linking", "locked", "notify", "callback"}
     \/ k.at = "terminate" /\ t \in Closers
     \/ k.at \in {"entering", "terminate", "eventSocket", "reading", "leave", "unmark"} /\ k.locked /\ ch = 1
     \/ k.at = "unlocking" /\ (t \in EventThreads => k.locked) /\ (k.todo = Both \/ k.todo = Only(ch))
     \/ k.at = "unlocked" /\ k.todo = Both /\ ch = 1

\* A thread in call k has csNetwork; how many times it has entered it.
Networks(k) ==
  \/ k.at \in {"refused", "locked", "finish", "terminate", "leave", "clearing"}
  \/ k.at \in {"locking", "verifying"} /\ k.ok \in {"locked", "terminate"}
  \/ k.at \in {"unlocking", "unlocked", "recheck"} /\ k.ok # "idle"

Depth(k) == IF k.at = "clearing" /\ k.ok # "idle" THEN 2 ELSE 1

\* The call k means the connection whose serial it has kept.
Keeps(k) ==
  \/ k.at \in {"lockRefused", "validate", "holding"}
  \/ k.at \in {"locking", "verifying"} /\ k.ok = "validate"

\* A client that is being opened is free of flags, then active only, and its links are those that
\* AddActive has given it.
OpensWell(k) ==
  /\ k.at \in {"opening", "adding"} => flags[k.pc] = {} /\ ~recyclePending[k.pc]
  /\ k.at = "linking" => /\ flags[k.pc] = {"CF_ACTIVE"} /\ ~recyclePending[k.pc]
                         /\ me[k.pc] = "ActiveClients" /\ next[k.pc] = next["ActiveClients"]
\* A client that is being closed, or recycled, has the flags for it.
ClosesWell(k) ==
  /\ k.at \in Order => flags[k.pc] \cap {"CF_ACTIVE", "CF_CLOSED"} # {}
  /\ k.at = "clearing" => "CF_CLOSED" \in flags[k.pc]
\* A kept serial is that of the client only as long as the connection is the same and open.
LocksWell(k) ==
  /\ Keeps(k) => \/ k.serial < serial[k.pc]
                 \/ /\ k.serial = serial[k.pc] /\ connection[k.pc] = k.connection
                    /\ "CF_ACTIVE" \in flags[k.pc]
  /\ k.at = "holding" => k.serial = serial[k.pc]
\* What the calls rely on of the clients.
Good(k) == OpensWell(k) /\ ClosesWell(k) /\ LocksWell(k)

\* Each call has its shape.
ShapeInv == \A t \in Threads : Shape(t, thread[t])
\* A section is held once, by the thread whose call says so.
OwnInv == \A c \in Clients, ch \in Channels :
   /\ csLock[c][ch].locks \in {0, 1}
   /\ \A t \in Threads : csLock[c][ch].owner = t <=> Owns(t, thread[t], c, ch)
\* csNetwork is held by the thread whose call says so, as often as it says.
NetInv ==
  \A t \in Threads :
    /\ Networks(thread[t]) => csNetwork = [owner |-> t, locks |-> Depth(thread[t])]
    /\ csNetwork.owner = t => Networks(thread[t]) \/ (thread[t].at = "callback" /\ csNetwork.locks = 1)
\* Each call may rely on its client.
GoodInv == \A t \in Threads : Good(thread[t])
\* A client is not recycled while it is being closed.
ClearInv == \A t, u \in Threads :
  thread[t].at = "clearing" /\ thread[u].at \in Order => thread[t].pc # thread[u].pc

\* Who belongs in a list: who has its flag and is not being linked in.
In(l) == {c \in Clients : Flag[l] \in flags[c] /\ ~Linking(c)}
\* The links make the lists of those who belong in them.
ListInv == InPlace(next, me, [l \in Lists |-> In(l)])
\* A client without a state flag that has a socket is being opened.
KnownInv == \A c \in Clients :
  flags[c] \cap CF_STATEFLAGS = {} /\ socket[c] => \E t \in Openers : Fresh(thread[t], c)

\* A client has at most one state flag, and its other marks fit it.
FlagInv == \A c \in Clients :
   /\ \A f, g \in flags[c] \cap CF_STATEFLAGS : f = g
   /\ "CF_CLOSING" \in flags[c] => flags[c] \cap {"CF_ACTIVE", "CF_CLOSED"} # {}
   /\ recyclePending[c] => "CF_CLOSED" \in flags[c]
   /\ "CF_AVAILABLE" \in flags[c] => ~socket[c]

\* A section has an owner while it is held.
SectionsOK == \A s \in {csNetwork} \cup {csLock[c][ch] : c \in Clients, ch \in Channels} :
                s.owner = None <=> s.locks = 0

\* The variables have their types.
Typed ==
  /\ LinksType(next, me)
  /\ flags \in [Clients -> SUBSET (CF_STATEFLAGS \cup {"CF_CLOSING"})]
  /\ socket \in [Clients -> BOOLEAN] /\ recyclePending \in [Clients -> BOOLEAN]
  /\ serial \in [Clients -> Nat]
  /\ csLock \in [Clients -> [Channels -> Sections]] /\ csNetwork \in Sections
  /\ thread \in [Threads -> Calls]
  /\ opens \in 0..MaxOpens /\ connection \in [Clients -> 0..MaxOpens]
  /\ fault \in BOOLEAN

\* What holds until the process traps.
Working == ShapeInv /\ OwnInv /\ NetInv /\ GoodInv /\ ClearInv /\ ListInv /\ KnownInv
           /\ PendingHasRecycler
\* The inductive invariant.
Inv == /\ Typed /\ SectionsOK /\ FlagInv
       /\ IF fault THEN \A t \in Threads : thread[t] = NoCall ELSE Working

\* What ClientsAssumption says of clients, threads and lists.
LEMMA Distinct ==
  /\ None \notin Clients /\ None \notin Threads /\ None \notin Lists /\ Clients \cap Lists = {}
  /\ EventThreads \cap (Openers \cup Closers \cup Lockers) = {}
  /\ MaxOpens \in Nat
  BY ClientsAssumption DEF Threads

\* Head, Tail, Len and Append of the sequences of channels.
LEMMA WordsAre ==
  /\ Nil \in Seq(Channels) /\ Only(0) \in Seq(Channels) /\ Only(1) \in Seq(Channels) /\ Both \in Seq(Channels)
  /\ Nil # Only(0) /\ Nil # Only(1) /\ Only(0) # Only(1)
  /\ Both # Only(0) /\ Both # Only(1) /\ Both # Nil
  /\ Head(Only(0)) = 0 /\ Tail(Only(0)) = Nil /\ Len(Only(0)) = 1 /\ Append(Nil, 0) = Only(0)
  /\ Head(Only(1)) = 1 /\ Tail(Only(1)) = Nil /\ Len(Only(1)) = 1 /\ Append(Nil, 1) = Only(1)
  /\ Head(Both) = 0 /\ Tail(Both) = Only(1) /\ Len(Both) = 2 /\ Append(Only(0), 1) = Both
  /\ Len(Nil) = 0
<1>1. <<>> \in Seq(Channels) /\ <<0>> \in Seq(Channels) /\ <<1>> \in Seq(Channels) /\ <<0, 1>> \in Seq(Channels)
  <2>1. 0 \in Channels /\ 1 \in Channels
    BY DEF Channels
  <2>2. <<>> \in Seq(Channels)
    OBVIOUS
  <2>3. <<0>> \in Seq(Channels)
    BY <2>1
  <2>4. <<1>> \in Seq(Channels)
    BY <2>1
  <2>5. <<0, 1>> \in Seq(Channels)
    BY <2>1
  <2> QED BY <2>2, <2>3, <2>4, <2>5
<1>2. <<>> # <<0>> /\ <<>> # <<1>> /\ <<0>> # <<1>> /\ <<0, 1>> # <<0>> /\ <<0, 1>> # <<1>> /\ <<0, 1>> # <<>>
  OBVIOUS
<1>3. Head(<<0>>) = 0 /\ Tail(<<0>>) = <<>> /\ Len(<<0>>) = 1 /\ Append(<<>>, 0) = <<0>>
  OBVIOUS
<1>4. Head(<<1>>) = 1 /\ Tail(<<1>>) = <<>> /\ Len(<<1>>) = 1 /\ Append(<<>>, 1) = <<1>>
  OBVIOUS
<1>5. Head(<<0, 1>>) = 0 /\ Tail(<<0, 1>>) = <<1>> /\ Len(<<0, 1>>) = 2 /\ Append(<<0>>, 1) = <<0, 1>>
  <2>1. Head(<<0, 1>>) = 0 /\ Len(<<0, 1>>) = 2
    OBVIOUS
  <2>2. Tail(<<0, 1>>) = <<1>>
    OBVIOUS
  <2>3. Append(<<0>>, 1) = <<0, 1>>
    <3>1. <<0>> \in Seq(Nat) /\ <<0, 1>> \in Seq(Nat) /\ Len(<<0>>) = 1 /\ Len(<<0, 1>>) = 2
      OBVIOUS
    <3>2. /\ Append(<<0>>, 1) \in Seq(Nat) /\ Len(Append(<<0>>, 1)) = 2
          /\ Append(<<0>>, 1)[1] = 0 /\ Append(<<0>>, 1)[2] = 1
      BY <3>1
    <3>3. <<0, 1>>[1] = 0 /\ <<0, 1>>[2] = 1
      OBVIOUS
    <3> DEFINE p == Append(<<0>>, 1)
               q == <<0, 1>>
    <3>4. p \in Seq(Nat) /\ q \in Seq(Nat) /\ Len(p) = 2 /\ Len(q) = 2 /\ p[1] = q[1] /\ p[2] = q[2]
      BY <3>1, <3>2, <3>3
    <3> HIDE DEF p, q
    <3>5. \A i \in 1..2 : p[i] = q[i]
      BY <3>4
    <3>6. p = q
      BY <3>4, <3>5, SMTT(30)
    <3> QED BY <3>6 DEF p, q
  <2> QED BY <2>1, <2>2, <2>3
<1>6. Len(<<>>) = 0
  OBVIOUS
<1> QED BY <1>1, <1>2, <1>3, <1>4, <1>5, <1>6 DEF Nil, Only, Both

(***************************************************************************)
(* Calls, and steps that change little                                     *)
(***************************************************************************)

\* The call that ToLock makes.
LEMMA ToLockIs ==
  ASSUME NEW k \in Calls, NEW s \in Seq(Channels), NEW ok \in Places, NEW no \in Places
  PROVE  LET j == ToLock(k, s, ok, no) IN
         /\ j \in Calls /\ j.at = "locking" /\ j.todo = s /\ j.done = Nil /\ j.ok = ok /\ j.no = no
         /\ j.pc = k.pc /\ j.serial = k.serial /\ j.connection = k.connection /\ j.locked = k.locked
<1> DEFINE k1 == [k EXCEPT !.at = "locking", !.todo = s]
           k2 == [k1 EXCEPT !.done = Nil, !.ok = ok]
           k3 == [k2 EXCEPT !.no = no]
<1>1. Nil \in Seq(Channels) /\ "locking" \in Places
  BY WordsAre DEF Places
<1>2. k1 \in Calls
  BY <1>1 DEF Calls
<1> HIDE DEF k1
<1>3. k2 \in Calls
  BY <1>1, <1>2 DEF Calls
<1> HIDE DEF k2
<1>4. k3 \in Calls
  BY <1>3 DEF Calls
<1>5. ToLock(k, s, ok, no) = k3
  BY DEF ToLock, k1, k2, Nil
<1> HIDE DEF k3
<1>6. ToLock(k, s, ok, no) \in Calls
  BY <1>4, <1>5
<1>7. /\ ToLock(k, s, ok, no).at = "locking" /\ ToLock(k, s, ok, no).todo = s
      /\ ToLock(k, s, ok, no).done = Nil /\ ToLock(k, s, ok, no).ok = ok
      /\ ToLock(k, s, ok, no).no = no
  BY DEF ToLock, Calls, Nil
<1>8. /\ ToLock(k, s, ok, no).pc = k.pc /\ ToLock(k, s, ok, no).serial = k.serial
      /\ ToLock(k, s, ok, no).connection = k.connection /\ ToLock(k, s, ok, no).locked = k.locked
  BY DEF ToLock, Calls, Nil
<1> QED BY <1>6, <1>7, <1>8

\* The call that ToUnlock makes.
LEMMA ToUnlockIs ==
  ASSUME NEW k \in Calls, NEW s \in Seq(Channels), NEW ok \in Places
  PROVE  LET j == ToUnlock(k, s, ok) IN
         /\ j \in Calls /\ j.at = "unlocking" /\ j.todo = s /\ j.done = Nil /\ j.ok = ok /\ j.no = k.no
         /\ j.pc = k.pc /\ j.serial = k.serial /\ j.connection = k.connection /\ j.locked = k.locked
  BY WordsAre, ZenonT(60) DEF ToUnlock, Calls, Places, Nil

\* The call of a thread that is idle.
LEMMA NoCallIs ==
  /\ NoCall \in Calls /\ NoCall.at = "idle" /\ NoCall.pc = None /\ ~NoCall.locked
  /\ NoCall.todo = Nil /\ NoCall.done = Nil /\ NoCall.ok = "idle" /\ NoCall.no = "idle"
  BY WordsAre, Distinct DEF NoCall, Calls, Places, Nil

\* The call that At makes.
LEMMA AtIs ==
  ASSUME NEW k \in Calls, NEW place \in Places
  PROVE  LET j == At(k, place) IN
         /\ j \in Calls /\ j.at = place
         /\ place = "idle" => j = NoCall
         /\ place # "idle" =>
              /\ j.todo = k.todo /\ j.done = k.done /\ j.ok = k.ok /\ j.no = k.no
              /\ j.pc = k.pc /\ j.serial = k.serial /\ j.connection = k.connection /\ j.locked = k.locked
<1>1. CASE place = "idle"
  BY <1>1, NoCallIs DEF At
<1>2. CASE place # "idle"
  BY <1>2 DEF At, Calls
<1> QED BY <1>1, <1>2

\* An idle thread has no section, and relies on nothing.
LEMMA NoCallKept ==
  ASSUME NEW t \in Threads
  PROVE  /\ Shape(t, NoCall) /\ Good(NoCall) /\ ~Networks(NoCall)
         /\ \A c \in Clients, ch \in Channels : ~Owns(t, NoCall, c, ch)
<1>1. NoCall.at = "idle" /\ NoCall.pc = None /\ ~NoCall.locked
  BY NoCallIs
<1>2. Shape(t, NoCall)
  BY <1>1 DEF Shape, Role, Locking, Unlocking
<1>3. Good(NoCall)
  BY <1>1 DEF Good, OpensWell, ClosesWell, LocksWell, Keeps, Order
<1>4. ~Networks(NoCall)
  BY <1>1 DEF Networks
<1> QED BY <1>1, <1>2, <1>3, <1>4, Distinct DEF Owns

\* What a thread has done that changes its call only, apart from the sections.
LEMMA ThreadStep ==
  ASSUME Inv, ~fault, NEW t \in Threads, NEW k \in Calls,
         thread' = [thread EXCEPT ![t] = k],
         UNCHANGED <<lists, state, connection, fault>>, opens' \in 0..MaxOpens,
         Shape(t, k), Good(k),
         thread[t].at \notin {"opening", "adding", "linking"},
         k.at \notin {"opening", "adding", "linking", "clearing"},
         k.at \in Order => \A u \in Threads \ {t} : thread[u].at = "clearing" => thread[u].pc # k.pc,
         csLock' \in [Clients -> [Channels -> Sections]], csNetwork' \in Sections,
         SectionsOK', OwnInv', NetInv', PendingHasRecycler'
  PROVE  Inv'
<1>1. thread \in [Threads -> Calls] /\ thread'[t] = k /\ \A u \in Threads \ {t} : thread'[u] = thread[u]
  BY DEF Inv, Typed
<1>2. Working
  BY DEF Inv
<1>3. Typed'
  BY DEF Inv, Typed, LinksType, lists, state
<1>4. FlagInv'
  BY DEF Inv, FlagInv, state
<1>5. ShapeInv'
  BY <1>1, <1>2 DEF Working, ShapeInv
<1>6. GoodInv'
  <2>1. ASSUME NEW u \in Threads PROVE Good(thread[u])'
    <3>1. Good(thread'[u])
      BY <1>1, <1>2 DEF Working, GoodInv
    <3> QED BY <3>1 DEF Good, OpensWell, ClosesWell, LocksWell, Keeps, state, lists
  <2> QED BY <2>1 DEF GoodInv
<1>7. ClearInv'
  <2> SUFFICES ASSUME NEW u \in Threads, NEW v \in Threads,
                      thread'[u].at = "clearing", thread'[v].at \in Order
               PROVE  thread'[u].pc # thread'[v].pc
    BY DEF ClearInv
  <2>1. u # t
    BY <1>1
  <2>2. CASE v = t
    BY <1>1, <2>1, <2>2
  <2>3. CASE v # t
    BY <1>1, <1>2, <2>1, <2>3 DEF Working, ClearInv
  <2> QED BY <2>2, <2>3
<1>8. \A u \in Openers, c \in Clients : Fresh(thread[u], c)' <=> Fresh(thread[u], c)
  BY <1>1 DEF Fresh, Threads
<1>9. \A c \in Clients : Linking(c)' <=> Linking(c)
  BY <1>1 DEF Linking, Threads
<1>10. ListInv'
  <2>1. \A l \in Lists : In(l)' = In(l)
    BY <1>9 DEF In, state
  <2> QED BY <1>2, <2>1 DEF Working, ListInv, lists
<1>11. KnownInv'
  BY <1>2, <1>8 DEF Working, KnownInv, state
<1> QED BY <1>3, <1>4, <1>5, <1>6, <1>7, <1>10, <1>11 DEF Inv, Working

\* A thread whose call changes, but for nothing that others rely on.
LEMMA QuietStep ==
  ASSUME Inv, ~fault, NEW t \in Threads, NEW k \in Calls,
         thread' = [thread EXCEPT ![t] = k],
         UNCHANGED <<lists, state, csLock, csNetwork, connection, fault>>, opens' \in 0..MaxOpens,
         Shape(t, k), Good(k),
         \A c \in Clients, ch \in Channels : Owns(t, k, c, ch) <=> Owns(t, thread[t], c, ch),
         Networks(k) <=> Networks(thread[t]),
         thread[t].at \notin {"opening", "adding", "linking", "clearing", "callback"},
         k.at \notin {"opening", "adding", "linking", "clearing"},
         k.at \in Order => \A u \in Threads \ {t} : thread[u].at = "clearing" => thread[u].pc # k.pc,
         thread[t].at \in {"unlocked", "recheck"} => (k.pc = thread[t].pc /\ k.at = "recheck") \/ ~Due(thread[t].pc)
  PROVE  Inv'
<1>1. thread \in [Threads -> Calls] /\ thread'[t] = k /\ \A u \in Threads \ {t} : thread'[u] = thread[u]
  BY DEF Inv, Typed
<1>2. Working
  BY DEF Inv
<1>3. SectionsOK' /\ csLock' \in [Clients -> [Channels -> Sections]] /\ csNetwork' \in Sections
  BY DEF Inv, SectionsOK, Typed
<1>4. OwnInv'
  BY <1>1, <1>2 DEF Working, OwnInv
<1>5. NetInv'
  <2>1. Depth(k) = Depth(thread[t])
    BY DEF Depth
  <2> QED BY <1>1, <1>2, <2>1 DEF Working, NetInv
<1>6. PendingHasRecycler'
  <2> SUFFICES ASSUME NEW c \in Clients, recyclePending[c], ~Held(c)
               PROVE  \E u \in Threads : thread'[u].pc = c /\ thread'[u].at \in {"unlocked", "recheck"}
    BY DEF PendingHasRecycler, Held, state
  <2>1. PICK u \in Threads : thread[u].pc = c /\ thread[u].at \in {"unlocked", "recheck"}
    BY <1>2 DEF Working, PendingHasRecycler
  <2>2. CASE u = t
    BY <1>1, <2>1, <2>2 DEF Due
  <2>3. CASE u # t
    BY <1>1, <2>1, <2>3
  <2> QED BY <2>2, <2>3
<1> QED BY <1>3, <1>4, <1>5, <1>6, ThreadStep

\* The invariant, of one thread.
LEMMA Unpack ==
  ASSUME Inv, ~fault, NEW t \in Threads
  PROVE  /\ thread \in [Threads -> Calls] /\ thread[t] \in Calls
         /\ Shape(t, thread[t]) /\ Good(thread[t])
         /\ Typed /\ SectionsOK /\ FlagInv /\ Working
  BY DEF Inv, Typed, Working, ShapeInv, GoodInv

\* A thread that enters a section, or leaves one.
LEMMA SectionStep ==
  ASSUME Typed, SectionsOK, OwnInv, NEW t \in Threads, NEW k \in Calls,
         NEW c \in Clients, NEW ch \in Channels, NEW s \in Sections,
         thread' = [thread EXCEPT ![t] = k],
         csLock' = [csLock EXCEPT ![c][ch] = s], csNetwork' = csNetwork,
         (s.owner = None /\ s.locks = 0) \/ (s.owner = t /\ s.locks = 1),
         csLock[c][ch].owner \in {None, t},
         Owns(t, k, c, ch) <=> s.owner = t,
         \A d \in Clients, h \in Channels :
           <<d, h>> # <<c, ch>> => (Owns(t, k, d, h) <=> Owns(t, thread[t], d, h))
  PROVE  /\ csLock' \in [Clients -> [Channels -> Sections]] /\ csNetwork' \in Sections
         /\ SectionsOK' /\ OwnInv'
<1>0. None \notin Threads
  BY Distinct
<1>1. /\ thread'[t] = k /\ \A u \in Threads \ {t} : thread'[u] = thread[u]
  BY DEF Typed
<1>2. /\ csLock \in [Clients -> [Channels -> Sections]] /\ csNetwork \in Sections
      /\ csLock' \in [Clients -> [Channels -> Sections]] /\ csLock'[c][ch] = s
      /\ \A d \in Clients, h \in Channels : <<d, h>> # <<c, ch>> => csLock'[d][h] = csLock[d][h]
  BY DEF Typed
<1>3. SectionsOK'
  <2> SUFFICES ASSUME NEW d \in Clients, NEW h \in Channels
               PROVE  csLock'[d][h].owner = None <=> csLock'[d][h].locks = 0
    BY DEF SectionsOK
  <2>1. CASE <<d, h>> = <<c, ch>>
    BY <1>0, <1>2, <2>1
  <2>2. CASE <<d, h>> # <<c, ch>>
    BY <1>2, <2>2 DEF SectionsOK
  <2> QED BY <2>1, <2>2
<1>4. OwnInv'
  <2> SUFFICES ASSUME NEW d \in Clients, NEW h \in Channels
               PROVE  /\ csLock'[d][h].locks \in {0, 1}
                      /\ \A u \in Threads : csLock'[d][h].owner = u <=> Owns(u, thread'[u], d, h)
    BY DEF OwnInv
  <2>1. CASE <<d, h>> = <<c, ch>>
    <3>1. csLock'[d][h].locks \in {0, 1} /\ csLock'[d][h] = s /\ d = c /\ h = ch
      BY <1>2, <2>1
    <3>2. ASSUME NEW u \in Threads \ {t} PROVE ~Owns(u, thread'[u], c, ch) /\ s.owner # u
      BY <1>0, <1>1 DEF OwnInv
    <3> QED BY <1>1, <3>1, <3>2
  <2>2. CASE <<d, h>> # <<c, ch>>
    BY <1>1, <1>2, <2>2 DEF OwnInv
  <2> QED BY <2>1, <2>2
<1> QED BY <1>2, <1>3, <1>4

\* csNetwork is a thread's while its call says so, and no other's.
LEMMA OneNetwork ==
  ASSUME NetInv, NEW t \in Threads, NEW u \in Threads, Networks(thread[t]), Networks(thread[u])
  PROVE  t = u
  BY DEF NetInv

\* The call after a lock that is refused keeps what was locked before.
LEMMA RefusedIs ==
  ASSUME NEW t \in Threads, NEW k \in Calls, Shape(t, k), Good(k), k.at \in {"locking", "verifying"}
  PROVE  LET j == Refused(k) IN
         /\ j \in Calls /\ Shape(t, j) /\ Good(j) /\ (Networks(j) <=> Networks(k))
         /\ \A c \in Clients, ch \in Channels : Owns(t, j, c, ch) <=> k.pc = c /\ k.done = Only(ch)
         /\ j.at \in {"unlocking", "lockRefused", "eventRefused", "refused", "leave"}
<1> DEFINE j == Refused(k)
<1>1. /\ k.pc \in Clients
      /\ \/ /\ k.ok = "validate" /\ k.no = "lockRefused" /\ t \in Lockers
            /\ k.todo \in {Only(0), Only(1)} /\ k.done = Nil
         \/ /\ k.ok = "event" /\ k.no = "eventRefused" /\ t \in EventThreads
            /\ k.todo = Only(1) /\ k.done = Nil /\ ~k.locked
         \/ k.ok = "locked" /\ k.no = "refused" /\ t \in Closers /\ Relocks(k)
         \/ k.ok = "terminate" /\ k.no = "leave" /\ t \in Closers /\ Relocks(k)
  BY DEF Shape, Role, Locking
<1>2. k.done = Nil \/ (k.done = Only(0) /\ t \in Closers /\ k.no \in {"refused", "leave"} /\ k.ok \in {"locked", "terminate"})
  BY <1>1 DEF Relocks
<1>3. t \in Closers \cup Lockers => ~k.locked /\ t \notin EventThreads
  <2>1. k.locked => t \in EventThreads
    BY DEF Shape, Role
  <2>2. t \in Closers \cup Lockers => t \notin EventThreads
    BY Distinct
  <2> QED BY <2>1, <2>2
<1>4. CASE k.done = Nil
  <2>1. k.no \in Places /\ k.no # "idle" /\ j = At(k, k.no)
    BY <1>1, <1>4 DEF Refused, Places, Nil
  <2>2. /\ j \in Calls /\ j.at = k.no
        /\ j.todo = k.todo /\ j.done = k.done /\ j.ok = k.ok /\ j.no = k.no
        /\ j.pc = k.pc /\ j.serial = k.serial /\ j.connection = k.connection /\ j.locked = k.locked
    BY <2>1, AtIs
  <2> HIDE DEF j
  <2>3. Shape(t, j)
    BY <1>1, <1>3, <1>4, <2>2 DEF Shape, Role, Locking, Unlocking
  <2>4. Good(j)
    BY <1>1, <2>2 DEF Good, OpensWell, ClosesWell, LocksWell, Keeps, Order
  <2>5. Networks(j) <=> Networks(k)
    BY <1>1, <2>2 DEF Networks
  <2>6. \A c \in Clients, ch \in Channels : ~Owns(t, j, c, ch) /\ k.done # Only(ch)
    BY <1>1, <1>3, <1>4, <2>2, WordsAre DEF Owns, Channels
  <2> QED BY <1>1, <2>2, <2>3, <2>4, <2>5, <2>6 DEF j
<1>5. CASE k.done = Only(0) /\ t \in Closers /\ k.no \in {"refused", "leave"} /\ k.ok \in {"locked", "terminate"}
  <2>0. Only(0) \in Seq(Channels) /\ k.done # Nil /\ k.no \in Places
    BY <1>5, WordsAre DEF Places
  <2>1. j = ToUnlock(k, Only(0), k.no)
    BY <1>5, <2>0 DEF Refused, Nil
  <2>2. /\ j \in Calls /\ j.at = "unlocking" /\ j.todo = Only(0) /\ j.done = Nil /\ j.ok = k.no
        /\ j.pc = k.pc /\ j.locked = k.locked
    BY <2>0, <2>1, ToUnlockIs
  <2> HIDE DEF j
  <2>3. Shape(t, j)
    BY <1>1, <1>3, <1>5, <2>2 DEF Shape, Role, Locking, Unlocking, Onwards
  <2>4. Good(j)
    BY <2>2 DEF Good, OpensWell, ClosesWell, LocksWell, Keeps, Order
  <2>5. Networks(j) /\ Networks(k)
    BY <1>5, <2>2 DEF Networks
  <2>6. \A c \in Clients, ch \in Channels : Owns(t, j, c, ch) <=> k.pc = c /\ k.done = Only(ch)
    <3> TAKE c \in Clients, ch \in Channels
    <3>1. CASE ch = 0
      BY <1>3, <1>5, <2>2, <3>1 DEF Owns
    <3>2. CASE ch = 1
      BY <1>5, <2>2, <3>2, WordsAre DEF Owns
    <3> QED BY <3>1, <3>2 DEF Channels
  <2> QED BY <2>2, <2>3, <2>4, <2>5, <2>6 DEF j
<1> QED BY <1>2, <1>4, <1>5

\* The call after a channel is unlocked has the sections it had.
LEMMA UnlockedIs ==
  ASSUME NEW t \in Threads, NEW k \in Calls, Shape(t, k), k.at \in {"unlocked", "recheck", "clearing"}
  PROVE  LET j == Unlocked(k) IN
         /\ j \in Calls /\ Shape(t, j) /\ Good(j) /\ (Networks(j) <=> k.ok # "idle")
         /\ \A c \in Clients, ch \in Channels : Owns(t, j, c, ch) <=> Owns(t, k, c, ch)
         /\ j.at \in {"unlocking", "idle", "refused", "finish", "leave"}
<1> DEFINE j == Unlocked(k)
<1>1. /\ k.pc \in Clients /\ k.ok \in Onwards
      /\ \/ k.todo = Both /\ k.at = "unlocked" /\ t \notin EventThreads
         \/ k.todo \in {Nil, Only(0), Only(1)}
      /\ k.ok \in {"refused", "finish"} => t \in Closers
      /\ k.ok # "idle" => t \in Closers \cup EventThreads
      /\ t \in EventThreads => k.ok \in {"idle", "leave"} /\ (k.ok = "leave" => ~k.locked /\ k.at = "clearing")
      /\ t \notin EventThreads => ~k.locked
      /\ t \in Closers => t \notin EventThreads
      /\ t \notin Closers /\ k.ok # "idle" => k.at = "clearing"
  BY WordsAre, Distinct DEF Shape, Role, Unlocking, Onwards
<1>2. CASE k.todo = Both
  <2>0. Only(1) \in Seq(Channels) /\ k.ok \in Places /\ Len(k.todo) > 1 /\ Tail(k.todo) = Only(1)
    BY <1>1, <1>2, WordsAre DEF Places, Onwards
  <2>1. j = ToUnlock(k, Only(1), k.ok) /\ k.at = "unlocked" /\ t \notin EventThreads
    BY <1>1, <1>2, <2>0, WordsAre DEF Unlocked, Nil
  <2>2. /\ j \in Calls /\ j.at = "unlocking" /\ j.todo = Only(1) /\ j.done = Nil /\ j.ok = k.ok
        /\ j.pc = k.pc /\ j.locked = k.locked
    BY <2>0, <2>1, ToUnlockIs
  <2> HIDE DEF j
  <2>3. Shape(t, j)
    BY <1>1, <2>1, <2>2 DEF Shape, Role, Locking, Unlocking
  <2>4. Good(j)
    BY <2>2 DEF Good, OpensWell, ClosesWell, LocksWell, Keeps, Order
  <2>5. Networks(j) <=> k.ok # "idle"
    BY <2>2 DEF Networks
  <2>6. \A c \in Clients, ch \in Channels : Owns(t, j, c, ch) <=> Owns(t, k, c, ch)
    <3> TAKE c \in Clients, ch \in Channels
    <3>1. CASE ch = 0
      BY <1>2, <2>1, <2>2, <3>1, WordsAre DEF Owns
    <3>2. CASE ch = 1
      BY <1>2, <2>1, <2>2, <3>2, WordsAre DEF Owns
    <3> QED BY <3>1, <3>2 DEF Channels
  <2> QED BY <2>2, <2>3, <2>4, <2>5, <2>6 DEF j
<1>3. CASE k.todo # Both
  <2> DEFINE h == [k EXCEPT !.todo = Nil]
  <2>0. Nil \in Seq(Channels) /\ k.ok \in Places /\ ~(Len(k.todo) > 1)
    BY <1>1, <1>3, WordsAre DEF Places, Onwards
  <2>1. j = At(h, k.ok)
    BY <2>0 DEF Unlocked, Nil
  <2>2. h \in Calls /\ h.pc = k.pc /\ h.locked = k.locked
    BY <2>0 DEF Calls
  <2>3. \A c \in Clients, ch \in Channels : ~Owns(t, k, c, ch)
    BY <1>3 DEF Shape, Owns
  <2> HIDE DEF h, j
  <2>4. CASE k.ok = "idle"
    <3>1. j = NoCall
      BY <2>0, <2>1, <2>2, <2>4, AtIs
    <3> QED BY <2>3, <2>4, <3>1, NoCallIs, NoCallKept DEF j
  <2>5. CASE k.ok # "idle"
    <3>1. j \in Calls /\ j.at = k.ok /\ j.pc = k.pc /\ j.locked = k.locked
      BY <2>0, <2>1, <2>2, <2>5, AtIs
    <3>2. j.at \in {"refused", "finish", "leave"}
      BY <1>1, <2>5, <3>1 DEF Onwards
    <3>3. Shape(t, j)
      BY <1>1, <3>1, <3>2 DEF Shape, Role, Locking, Unlocking
    <3>4. Good(j)
      BY <3>2 DEF Good, OpensWell, ClosesWell, LocksWell, Keeps, Order
    <3>5. Networks(j)
      BY <3>2 DEF Networks
    <3>6. ~j.locked
      BY <1>1, <3>1, <3>2, <2>5
    <3>7. \A c \in Clients, ch \in Channels : ~Owns(t, j, c, ch)
      BY <3>2, <3>6 DEF Owns
    <3> QED BY <2>3, <2>5, <3>1, <3>2, <3>3, <3>4, <3>5, <3>7 DEF j
  <2> QED BY <2>4, <2>5
<1> QED BY <1>2, <1>3

(***************************************************************************)
(* NetworkLock and NetworkUnlock                                           *)
(***************************************************************************)

\* A section that is found held: LockBusy keeps the invariant.
LEMMA LockBusyKeeps ==
  ASSUME Inv, ~fault, NEW t \in Threads, LockBusy(t)
  PROVE  Inv'
<1> DEFINE k == Refused(thread[t])
<1>1. thread[t] \in Calls /\ Shape(t, thread[t]) /\ Good(thread[t])
  BY Unpack
<1>2. /\ thread[t].at = "locking" /\ thread' = [thread EXCEPT ![t] = k]
      /\ UNCHANGED <<lists, state, csLock, csNetwork, connection, fault>> /\ opens' = opens
  BY DEF LockBusy, history
<1>3. /\ k \in Calls /\ Shape(t, k) /\ Good(k) /\ (Networks(k) <=> Networks(thread[t]))
      /\ \A c \in Clients, ch \in Channels : Owns(t, k, c, ch) <=> thread[t].pc = c /\ thread[t].done = Only(ch)
      /\ k.at \in {"unlocking", "lockRefused", "eventRefused", "refused", "leave"}
  BY <1>1, <1>2, RefusedIs
<1> HIDE DEF k
<1>4. \A c \in Clients, ch \in Channels : Owns(t, k, c, ch) <=> Owns(t, thread[t], c, ch)
  BY <1>2, <1>3 DEF Owns
<1>5. opens' \in 0..MaxOpens
  BY <1>2 DEF Inv, Typed
<1>6. k.at \notin Order
  BY <1>3 DEF Order
<1> QED BY <1>2, <1>3, <1>4, <1>5, <1>6, QuietStep

\* The channels of a call that is locking.
LEMMA WordIs ==
  ASSUME NEW t \in Threads, NEW k \in Calls, Shape(t, k), k.at \in {"locking", "verifying"}
  PROVE  /\ k.pc \in Clients /\ Head(k.todo) \in Channels
         /\ \/ k.todo = Both /\ k.done = Nil
            \/ k.todo = Only(0) /\ k.done = Nil
            \/ k.todo = Only(1) /\ k.done \in {Nil, Only(0)}
         /\ k.done = Only(0) => t \in Closers
<1>1. k.pc \in Clients
  BY DEF Shape, Role
<1>2. \/ k.todo = Both /\ k.done = Nil
      \/ k.todo = Only(0) /\ k.done = Nil
      \/ k.todo = Only(1) /\ k.done \in {Nil, Only(0)}
  BY DEF Shape, Locking, Relocks
<1>3. k.done = Only(0) => t \in Closers
  BY WordsAre DEF Shape, Locking, Relocks
<1>4. Head(k.todo) \in Channels
  BY <1>2, WordsAre DEF Channels
<1> QED BY <1>1, <1>2, <1>3, <1>4

\* A section that is entered: LockEnter keeps the invariant.
LEMMA LockEnterKeeps ==
  ASSUME Inv, ~fault, NEW t \in Threads, LockEnter(t)
  PROVE  Inv'
<1> DEFINE k == At(thread[t], "verifying")
           c == thread[t].pc
           ch == Head(thread[t].todo)
           s == Entered(csLock[c][ch], t)
<1>1. thread[t] \in Calls /\ Shape(t, thread[t]) /\ Good(thread[t]) /\ Typed /\ SectionsOK /\ Working
  BY Unpack
<1>2. /\ thread[t].at = "locking" /\ Free(csLock[c][ch], t)
      /\ thread' = [thread EXCEPT ![t] = k] /\ csLock' = [csLock EXCEPT ![c][ch] = s]
      /\ UNCHANGED <<lists, state, connection, fault>> /\ opens' = opens /\ csNetwork' = csNetwork
  BY DEF LockEnter, GoTo, history
<1>3. /\ k \in Calls /\ k.at = "verifying"
      /\ k.todo = thread[t].todo /\ k.done = thread[t].done /\ k.ok = thread[t].ok /\ k.no = thread[t].no
      /\ k.pc = thread[t].pc /\ k.serial = thread[t].serial
      /\ k.connection = thread[t].connection /\ k.locked = thread[t].locked
  BY <1>1, AtIs DEF Places
<1>4. /\ c \in Clients /\ ch \in Channels
      /\ \/ thread[t].todo = Both /\ thread[t].done = Nil /\ ch = 0
         \/ thread[t].todo = Only(0) /\ thread[t].done = Nil /\ ch = 0
         \/ thread[t].todo = Only(1) /\ thread[t].done \in {Nil, Only(0)} /\ ch = 1
  BY <1>1, <1>2, WordIs, WordsAre
<1> HIDE DEF k
<1>5. Shape(t, k)
  BY <1>1, <1>2, <1>3 DEF Shape, Role, Locking, Unlocking, Relocks
<1>6. Good(k)
  BY <1>1, <1>2, <1>3 DEF Good, OpensWell, ClosesWell, LocksWell, Keeps, Order
<1>7. csLock[c][ch] = Blank
  <2>1. ~Owns(t, thread[t], c, ch)
    BY <1>2, <1>4, WordsAre DEF Owns
  <2>2. csLock[c][ch].owner = None /\ csLock[c][ch] \in Sections
    <3>1. csLock[c][ch] \in Sections
      BY <1>1, <1>4 DEF Working, Typed
    <3>2. csLock[c][ch].owner \in {None, t}
      BY <1>2, <1>4 DEF Free
    <3>3. csLock[c][ch].owner # t
      BY <1>1, <1>4, <2>1 DEF Working, OwnInv
    <3> QED BY <3>1, <3>2, <3>3
  <2>3. csLock[c][ch].locks = 0
    BY <1>1, <1>4, <2>2 DEF SectionsOK
  <2> QED BY <2>2, <2>3 DEF Sections, Blank
<1>8. s \in Sections /\ s.owner = t /\ s.locks = 1
  BY <1>7 DEF Entered, Blank, Sections
<1>9. Owns(t, k, c, ch)
  BY <1>3, <1>4 DEF Owns
<1>10. \A d \in Clients, h \in Channels :
         <<d, h>> # <<c, ch>> => (Owns(t, k, d, h) <=> Owns(t, thread[t], d, h))
  <2> TAKE d \in Clients, h \in Channels
  <2> HAVE <<d, h>> # <<c, ch>>
  <2>1. CASE d # c
    BY <1>3, <2>1 DEF Owns
  <2>2. CASE h # ch
    BY <1>2, <1>3, <1>4, <2>2, WordsAre DEF Owns, Channels
  <2> QED BY <2>1, <2>2
<1>11. /\ csLock' \in [Clients -> [Channels -> Sections]] /\ csNetwork' \in Sections
       /\ SectionsOK' /\ OwnInv'
  <2>1. csLock[c][ch].owner \in {None, t} /\ OwnInv
    BY <1>1, <1>2 DEF Free, Working
  <2> HIDE DEF c, ch, s
  <2>2. thread' = [thread EXCEPT ![t] = k] /\ csLock' = [csLock EXCEPT ![c][ch] = s] /\ csNetwork' = csNetwork
    BY <1>2
  <2>3. c \in Clients /\ ch \in Channels /\ k \in Calls /\ Typed /\ SectionsOK
    BY <1>1, <1>3, <1>4
  <2> QED BY <1>8, <1>9, <1>10, <2>1, <2>2, <2>3, SectionStep
<1>12. thread'[t] = k /\ \A u \in Threads \ {t} : thread'[u] = thread[u]
  BY <1>1, <1>2 DEF Typed
<1>13. NetInv'
  <2>1. (Networks(k) <=> Networks(thread[t])) /\ Depth(k) = 1 /\ Depth(thread[t]) = 1 /\ k.at # "callback"
    BY <1>2, <1>3 DEF Networks, Depth
  <2> QED BY <1>1, <1>2, <1>12, <2>1 DEF Working, NetInv
<1>14. PendingHasRecycler'
  <2> SUFFICES ASSUME NEW d \in Clients, recyclePending[d]
               PROVE  Held(d)' \/ \E u \in Threads : thread'[u].pc = d /\ thread'[u].at \in {"unlocked", "recheck"}
    BY <1>2 DEF PendingHasRecycler, state
  <2>1. CASE Held(d)
    <3>1. PICK h \in Channels : csLock[d][h].locks > 0
      BY <2>1 DEF Held
    <3>2. csLock'[d][h].locks > 0
      <4>1. csLock \in [Clients -> [Channels -> Sections]]
        BY <1>1 DEF Typed
      <4>2. csLock' = [csLock EXCEPT ![c][ch] = s]
        BY <1>2
      <4>3. CASE d = c /\ h = ch
        <5>1. csLock'[d][h] = s
          BY <1>4, <4>1, <4>2, <4>3
        <5> QED BY <1>8, <5>1
      <4>4. CASE ~(d = c /\ h = ch)
        <5>1. csLock'[d][h] = csLock[d][h]
          BY <1>4, <4>1, <4>2, <4>4
        <5> QED BY <3>1, <5>1
      <4> QED BY <4>3, <4>4
    <3> QED BY <3>2 DEF Held
  <2>2. CASE ~Held(d)
    <3>1. PICK u \in Threads : thread[u].pc = d /\ thread[u].at \in {"unlocked", "recheck"}
      BY <1>1, <2>2 DEF Working, PendingHasRecycler
    <3> QED BY <1>2, <1>12, <3>1
  <2> QED BY <2>1, <2>2
<1>15. opens' \in 0..MaxOpens /\ k.at \notin Order
  BY <1>1, <1>2, <1>3 DEF Typed, Order
<1> QED BY <1>2, <1>3, <1>5, <1>6, <1>11, <1>13, <1>14, <1>15, ThreadStep

\* The flags are looked at in the section: LockCheck keeps the invariant.
LEMMA LockCheckKeeps ==
  ASSUME Inv, ~fault, NEW t \in Threads, LockCheck(t)
  PROVE  Inv'
<1> DEFINE c == thread[t].pc
           ch == Head(thread[t].todo)
<1>1. thread[t] \in Calls /\ Shape(t, thread[t]) /\ Good(thread[t]) /\ Typed /\ SectionsOK /\ FlagInv /\ Working
      /\ thread \in [Threads -> Calls]
  BY Unpack
<1>2. /\ thread[t].at = "verifying"
      /\ UNCHANGED <<lists, state, connection, fault>> /\ opens' = opens /\ csNetwork' = csNetwork
  BY DEF LockCheck, history
<1>3. opens' \in 0..MaxOpens
  BY <1>1, <1>2 DEF Typed
<1>4. /\ c \in Clients /\ ch \in Channels
      /\ \/ thread[t].todo = Both /\ thread[t].done = Nil /\ ch = 0
         \/ thread[t].todo = Only(0) /\ thread[t].done = Nil /\ ch = 0
         \/ thread[t].todo = Only(1) /\ thread[t].done \in {Nil, Only(0)} /\ ch = 1
  BY <1>1, <1>2, WordIs, WordsAre
<1>5. CASE flags[c] \cap {"CF_ACTIVE", "CF_CLOSED"} # {}
  <2> DEFINE k == [thread[t] EXCEPT !.todo = Tail(@), !.done = Append(@, ch),
                                    !.at = IF Len(thread[t].todo) = 1 THEN thread[t].ok ELSE "locking"]
  <2>1. thread' = [thread EXCEPT ![t] = k] /\ csLock' = csLock
    BY <1>1, <1>5 DEF LockCheck
  <2>2. /\ k.at = IF Len(thread[t].todo) = 1 THEN thread[t].ok ELSE "locking"
        /\ k.todo = Tail(thread[t].todo) /\ k.done = Append(thread[t].done, ch)
        /\ k.pc = c /\ k.ok = thread[t].ok /\ k.no = thread[t].no /\ k.serial = thread[t].serial
        /\ k.connection = thread[t].connection /\ k.locked = thread[t].locked
    BY <1>1 DEF Calls
  <2>3. k \in Calls
    <3>1. Tail(thread[t].todo) \in Seq(Channels) /\ Append(thread[t].done, ch) \in Seq(Channels)
      BY <1>4, WordsAre
    <3>2. (IF Len(thread[t].todo) = 1 THEN thread[t].ok ELSE "locking") \in Places
      BY <1>1 DEF Calls, Places
    <3> QED BY <1>1, <3>1, <3>2 DEF Calls
  <2> HIDE DEF k
  <2>4. \/ /\ thread[t].todo = Both /\ thread[t].done = Nil /\ ch = 0
           /\ k.at = "locking" /\ k.todo = Only(1) /\ k.done = Only(0)
        \/ /\ thread[t].todo = Only(ch) /\ thread[t].done = Nil /\ k.done = Only(ch) /\ k.at = k.ok
        \/ /\ thread[t].todo = Only(1) /\ thread[t].done = Only(0) /\ ch = 1 /\ k.at = k.ok /\ t \in Closers
           /\ k.done = Both
    BY <1>1, <1>2, <1>4, <2>2, WordIs, WordsAre
  <2>5. \/ /\ k.ok = "validate" /\ k.no = "lockRefused" /\ t \in Lockers
           /\ thread[t].todo \in {Only(0), Only(1)} /\ thread[t].done = Nil
        \/ /\ k.ok = "event" /\ k.no = "eventRefused" /\ t \in EventThreads
           /\ thread[t].todo = Only(1) /\ thread[t].done = Nil /\ ~k.locked
        \/ k.ok = "locked" /\ k.no = "refused" /\ t \in Closers /\ Relocks(thread[t])
        \/ k.ok = "terminate" /\ k.no = "leave" /\ t \in Closers /\ Relocks(thread[t])
    BY <1>1, <1>2, <2>2 DEF Shape, Locking
  <2>6. k.locked => t \in EventThreads /\ t \notin Closers
    BY <1>1, <2>2, Distinct DEF Shape, Role
  <2>7. Shape(t, k)
    <3>1. CASE k.at = "locking"
      BY <1>4, <2>2, <2>4, <2>5, <2>6, <3>1, WordsAre DEF Shape, Role, Locking, Unlocking, Relocks
    <3>2. CASE k.at = k.ok
      BY <1>4, <2>2, <2>4, <2>5, <2>6, <3>2, WordsAre DEF Shape, Role, Locking, Unlocking, Relocks, Channels
    <3> QED BY <2>4, <3>1, <3>2
  <2>8. k.at \in {"locking", "validate", "event", "locked", "terminate"}
    BY <2>4, <2>5
  <2>9. Good(k)
    <3>1. OpensWell(k)
      BY <2>8 DEF OpensWell
    <3>2. ClosesWell(k)
      BY <1>5, <2>2, <2>8 DEF ClosesWell
    <3>3. LocksWell(k)
      BY <1>1, <1>2, <2>2, <2>4, <2>5, <2>8 DEF Good, LocksWell, Keeps
    <3> QED BY <3>1, <3>2, <3>3 DEF Good
  <2>10. \A d \in Clients, h \in Channels : Owns(t, k, d, h) <=> Owns(t, thread[t], d, h)
    <3> TAKE d \in Clients, h \in Channels
    <3>1. CASE d # c
      BY <2>2, <3>1 DEF Owns
    <3>2. CASE d = c /\ h = 0
      BY <1>2, <1>4, <2>2, <2>4, <2>5, <2>6, <3>2, WordsAre DEF Owns, Relocks, Channels
    <3>3. CASE d = c /\ h = 1
      BY <1>2, <1>4, <2>2, <2>4, <2>5, <2>6, <3>3, WordsAre DEF Owns, Relocks, Channels
    <3> QED BY <3>1, <3>2, <3>3 DEF Channels
  <2>11. Networks(k) <=> Networks(thread[t])
    BY <1>2, <2>2, <2>4, <2>5, WordsAre DEF Networks, Relocks
  <2>12. ASSUME k.at \in Order, NEW u \in Threads \ {t}, thread[u].at = "clearing" PROVE thread[u].pc # k.pc
    <3>1. Networks(thread[t]) /\ Networks(thread[u])
      BY <2>8, <2>11, <2>12 DEF Networks, Order
    <3> QED BY <1>1, <3>1, OneNetwork DEF Working
  <2> HIDE DEF c, ch
  <2> QED BY <1>2, <1>3, <2>1, <2>3, <2>7, <2>8, <2>9, <2>10, <2>11, <2>12, QuietStep
<1>6. CASE flags[c] \cap {"CF_ACTIVE", "CF_CLOSED"} = {}
  <2> DEFINE k == Refused(thread[t])
             s == Left(csLock[c][ch])
  <2>1. thread' = [thread EXCEPT ![t] = k] /\ csLock' = [csLock EXCEPT ![c][ch] = s]
    BY <1>6 DEF LockCheck
  <2>2. /\ k \in Calls /\ Shape(t, k) /\ Good(k) /\ (Networks(k) <=> Networks(thread[t]))
        /\ \A d \in Clients, h \in Channels : Owns(t, k, d, h) <=> c = d /\ thread[t].done = Only(h)
        /\ k.at \in {"unlocking", "lockRefused", "eventRefused", "refused", "leave"}
    BY <1>1, <1>2, RefusedIs
  <2> HIDE DEF k
  <2>3. csLock[c][ch].owner = t /\ csLock[c][ch].locks = 1
    <3>1. Owns(t, thread[t], c, ch)
      BY <1>2, <1>4 DEF Owns
    <3>2. csLock[c][ch].owner = t /\ csLock[c][ch].locks \in {0, 1}
      BY <1>1, <1>4, <3>1 DEF Working, OwnInv
    <3>3. csLock[c][ch].locks # 0
      BY <1>1, <1>4, <3>2, Distinct DEF SectionsOK
    <3> QED BY <3>2, <3>3
  <2>4. s = Blank /\ s \in Sections /\ s.owner = None /\ s.locks = 0
    BY <2>3 DEF Left, Blank, Sections
  <2>5. ~Owns(t, k, c, ch) /\ None # t
    BY <1>4, <2>2, WordsAre, Distinct
  <2>6. \A d \in Clients, h \in Channels :
          <<d, h>> # <<c, ch>> => (Owns(t, k, d, h) <=> Owns(t, thread[t], d, h))
    <3> TAKE d \in Clients, h \in Channels
    <3> HAVE <<d, h>> # <<c, ch>>
    <3>1. CASE d # c
      BY <2>2, <3>1 DEF Owns
    <3>2. CASE h # ch
      BY <1>2, <1>4, <2>2, <3>2, WordsAre DEF Owns, Channels
    <3> QED BY <3>1, <3>2
  <2>7. /\ csLock' \in [Clients -> [Channels -> Sections]] /\ csNetwork' \in Sections
        /\ SectionsOK' /\ OwnInv'
    <3>1. csLock[c][ch].owner \in {None, t} /\ OwnInv
      BY <1>1, <2>3 DEF Working
    <3>2. c \in Clients /\ ch \in Channels /\ k \in Calls /\ Typed /\ SectionsOK
      BY <1>1, <1>4, <2>2
    <3>3. Owns(t, k, c, ch) <=> s.owner = t
      BY <2>4, <2>5
    <3> HIDE DEF c, ch, s
    <3> QED BY <1>2, <2>1, <2>4, <2>6, <3>1, <3>2, <3>3, SectionStep
  <2>8. thread'[t] = k /\ \A u \in Threads \ {t} : thread'[u] = thread[u]
    BY <1>1, <2>1
  <2>9. NetInv'
    <3>1. Depth(k) = 1 /\ Depth(thread[t]) = 1 /\ k.at # "callback"
      BY <1>2, <2>2 DEF Depth
    <3> QED BY <1>1, <1>2, <2>2, <2>8, <3>1 DEF Working, NetInv
  <2>10. PendingHasRecycler'
    <3> SUFFICES ASSUME NEW d \in Clients, recyclePending[d]
                 PROVE  Held(d)' \/ \E u \in Threads : thread'[u].pc = d /\ thread'[u].at \in {"unlocked", "recheck"}
      BY <1>2 DEF PendingHasRecycler, state
    <3>1. d # c
      BY <1>1, <1>4, <1>6 DEF FlagInv
    <3>2. Held(d) => Held(d)'
      BY <1>1, <2>1, <3>1 DEF Held, Typed
    <3>3. CASE ~Held(d)
      <4>1. PICK u \in Threads : thread[u].pc = d /\ thread[u].at \in {"unlocked", "recheck"}
        BY <1>1, <3>3 DEF Working, PendingHasRecycler
      <4> QED BY <1>2, <2>8, <4>1
    <3> QED BY <3>2, <3>3
  <2>11. k.at \notin Order
    BY <2>2 DEF Order
  <2> QED BY <1>2, <1>3, <2>1, <2>2, <2>7, <2>9, <2>10, <2>11, ThreadStep
<1> QED BY <1>5, <1>6

\* The process ends.
LEMMA TrapKeeps ==
  ASSUME Inv, Trap, UNCHANGED <<lists, state, csLock, csNetwork, history>>
  PROVE  Inv'
<1>1. Typed /\ SectionsOK /\ FlagInv
  BY DEF Inv
<1>2. fault' = TRUE /\ thread' = [u \in Threads |-> NoCall]
  BY DEF Trap
<1>3. Typed'
  BY <1>1, <1>2, NoCallIs DEF Typed, LinksType, lists, state, history
<1>4. SectionsOK' /\ FlagInv'
  BY <1>1 DEF SectionsOK, FlagInv, state
<1> QED BY <1>2, <1>3, <1>4 DEF Inv

\* A section that is left, or a trap: UnlockLeave keeps the invariant.
LEMMA UnlockLeaveKeeps ==
  ASSUME Inv, ~fault, NEW t \in Threads, UnlockLeave(t)
  PROVE  Inv'
<1> DEFINE c == thread[t].pc
           ch == Head(thread[t].todo)
           k == At(thread[t], "unlocked")
           s == Left(csLock[c][ch])
<1>1. thread[t] \in Calls /\ Shape(t, thread[t]) /\ Good(thread[t]) /\ Typed /\ SectionsOK /\ Working
      /\ thread \in [Threads -> Calls]
  BY Unpack
<1>2. /\ thread[t].at = "unlocking"
      /\ UNCHANGED <<lists, state, history>> /\ csNetwork' = csNetwork
  BY DEF UnlockLeave
<1>3. CASE csLock[c][ch].owner # t
  <2>1. Trap /\ csLock' = csLock
    BY <1>3 DEF UnlockLeave
  <2> QED BY <1>2, <2>1, TrapKeeps
<1>4. CASE csLock[c][ch].owner = t
  <2>1. csLock' = [csLock EXCEPT ![c][ch] = s] /\ thread' = [thread EXCEPT ![t] = k] /\ fault' = fault
    BY <1>4 DEF UnlockLeave, GoTo
  <2>2. /\ c \in Clients /\ ch \in Channels
        /\ \/ thread[t].todo = Both /\ ch = 0
           \/ thread[t].todo = Only(0) /\ ch = 0
           \/ thread[t].todo = Only(1) /\ ch = 1
        /\ t \in EventThreads => thread[t].todo = Only(1)
    BY <1>1, <1>2, WordsAre DEF Shape, Role, Unlocking, Channels
  <2>3. /\ k \in Calls /\ k.at = "unlocked"
        /\ k.todo = thread[t].todo /\ k.done = thread[t].done /\ k.ok = thread[t].ok /\ k.no = thread[t].no
        /\ k.pc = c /\ k.serial = thread[t].serial
        /\ k.connection = thread[t].connection /\ k.locked = thread[t].locked
    BY <1>1, AtIs DEF Places
  <2> HIDE DEF k
  <2>4. Shape(t, k)
    BY <1>1, <1>2, <2>3 DEF Shape, Role, Locking, Unlocking
  <2>5. Good(k)
    BY <2>3 DEF Good, OpensWell, ClosesWell, LocksWell, Keeps, Order
  <2>6. csLock[c][ch].locks = 1 /\ Owns(t, thread[t], c, ch)
    <3>1. csLock[c][ch].locks \in {0, 1} /\ Owns(t, thread[t], c, ch)
      BY <1>1, <1>4, <2>2 DEF Working, OwnInv
    <3>2. csLock[c][ch].locks # 0
      BY <1>1, <1>4, <2>2, Distinct DEF SectionsOK
    <3> QED BY <3>1, <3>2
  <2>7. s = Blank /\ s \in Sections /\ s.owner = None /\ s.locks = 0
    BY <2>6 DEF Left, Blank, Sections
  <2>8. ~Owns(t, k, c, ch) /\ None # t
    BY <2>2, <2>3, WordsAre, Distinct DEF Owns
  <2>9. \A d \in Clients, h \in Channels :
          <<d, h>> # <<c, ch>> => (Owns(t, k, d, h) <=> Owns(t, thread[t], d, h))
    <3> TAKE d \in Clients, h \in Channels
    <3> HAVE <<d, h>> # <<c, ch>>
    <3>1. CASE d # c
      BY <2>3, <3>1 DEF Owns
    <3>2. CASE h # ch
      BY <1>2, <2>2, <2>3, <3>2, WordsAre DEF Owns, Channels
    <3> QED BY <3>1, <3>2
  <2>10. /\ csLock' \in [Clients -> [Channels -> Sections]] /\ csNetwork' \in Sections
         /\ SectionsOK' /\ OwnInv'
    <3>1. csLock[c][ch].owner \in {None, t} /\ OwnInv
      BY <1>1, <1>4 DEF Working
    <3>2. c \in Clients /\ ch \in Channels /\ k \in Calls /\ Typed /\ SectionsOK
      BY <1>1, <2>2, <2>3
    <3>3. Owns(t, k, c, ch) <=> s.owner = t
      BY <2>7, <2>8
    <3> HIDE DEF c, ch, s
    <3> QED BY <1>2, <2>1, <2>7, <2>9, <3>1, <3>2, <3>3, SectionStep
  <2>11. thread'[t] = k /\ \A u \in Threads \ {t} : thread'[u] = thread[u]
    BY <1>1, <2>1
  <2>12. NetInv'
    <3>1. (Networks(k) <=> Networks(thread[t])) /\ Depth(k) = 1 /\ Depth(thread[t]) = 1 /\ k.at # "callback"
      BY <1>2, <2>3 DEF Depth, Networks
    <3> QED BY <1>1, <1>2, <2>11, <3>1 DEF Working, NetInv
  <2>13. PendingHasRecycler'
    <3> SUFFICES ASSUME NEW d \in Clients, recyclePending[d]
                 PROVE  Held(d)' \/ \E u \in Threads : thread'[u].pc = d /\ thread'[u].at \in {"unlocked", "recheck"}
      BY <1>2, <2>1 DEF PendingHasRecycler, state
    <3>1. CASE d = c
      BY <2>3, <2>11, <3>1
    <3>2. CASE d # c
      <4>1. Held(d) => Held(d)'
        BY <1>1, <2>1, <3>2 DEF Held, Typed
      <4>2. CASE ~Held(d)
        <5>1. PICK u \in Threads : thread[u].pc = d /\ thread[u].at \in {"unlocked", "recheck"}
          BY <1>1, <4>2 DEF Working, PendingHasRecycler
        <5> QED BY <1>2, <2>11, <5>1
      <4> QED BY <4>1, <4>2
    <3> QED BY <3>1, <3>2
  <2>14. k.at \notin Order /\ opens' \in 0..MaxOpens /\ UNCHANGED <<lists, state, connection, fault>>
    BY <1>1, <1>2, <2>1, <2>3 DEF Order, Typed, history
  <2> QED BY <1>2, <2>1, <2>3, <2>4, <2>5, <2>10, <2>12, <2>13, <2>14, ThreadStep
<1> QED BY <1>3, <1>4

\* A thread that enters csNetwork, or leaves it.
LEMMA NetworkStep ==
  ASSUME Typed, SectionsOK, OwnInv, NetInv, NEW t \in Threads, NEW k \in Calls, NEW s \in Sections,
         thread' = [thread EXCEPT ![t] = k], csNetwork' = s, csLock' = csLock,
         csNetwork.owner \in {None, t},
         (s.owner = None /\ s.locks = 0) \/ (s.owner = t /\ s.locks # 0),
         Networks(k) => s = [owner |-> t, locks |-> Depth(k)],
         s.owner = t => Networks(k) \/ (k.at = "callback" /\ s.locks = 1),
         \A c \in Clients, ch \in Channels : Owns(t, k, c, ch) <=> Owns(t, thread[t], c, ch)
  PROVE  /\ csLock' \in [Clients -> [Channels -> Sections]] /\ csNetwork' \in Sections
         /\ SectionsOK' /\ OwnInv' /\ NetInv'
<1>0. None \notin Threads
  BY Distinct
<1>1. thread'[t] = k /\ \A u \in Threads \ {t} : thread'[u] = thread[u]
  BY DEF Typed
<1>2. csLock' \in [Clients -> [Channels -> Sections]] /\ csNetwork' \in Sections
  BY DEF Typed
<1>3. SectionsOK'
  BY <1>0 DEF SectionsOK
<1>4. OwnInv'
  BY <1>1 DEF OwnInv
<1>5. \A u \in Threads \ {t} : ~Networks(thread[u]) /\ s.owner # u
  BY <1>0 DEF NetInv
<1>6. NetInv'
  BY <1>1, <1>5 DEF NetInv
<1> QED BY <1>2, <1>3, <1>4, <1>6

\* A thread that neither leaves a section nor looks whether a recycling is due.
LEMMA PendingStep ==
  ASSUME thread \in [Threads -> Calls], PendingHasRecycler, ~fault, NEW t \in Threads, NEW k,
         thread' = [thread EXCEPT ![t] = k],
         \A c \in Clients : recyclePending'[c] => recyclePending[c] \/ Held(c),
         \A c \in Clients : recyclePending'[c] /\ Held(c) => Held(c)',
         thread[t].at \notin {"unlocked", "recheck"}
  PROVE  PendingHasRecycler'
<1>1. \A u \in Threads \ {t} : thread'[u] = thread[u]
  OBVIOUS
<1> SUFFICES ASSUME NEW d \in Clients, recyclePending'[d]
             PROVE  Held(d)' \/ \E u \in Threads : thread'[u].pc = d /\ thread'[u].at \in {"unlocked", "recheck"}
  BY DEF PendingHasRecycler
<1>2. CASE Held(d)
  BY <1>2
<1>3. CASE ~Held(d)
  <2>1. PICK u \in Threads : thread[u].pc = d /\ thread[u].at \in {"unlocked", "recheck"}
    BY <1>3 DEF PendingHasRecycler
  <2> QED BY <1>1, <2>1
<1> QED BY <1>2, <1>3

\* The call that goes on to terminate a client.
LEMMA OnwardIs ==
  ASSUME NEW t \in Threads, NEW k \in Calls, Shape(t, k), k.at \in {"entering", "refused", "finish"}
  PROVE  LET j == Onward(k, t) IN
         /\ j \in Calls /\ Shape(t, j) /\ Good(j) /\ Networks(j) /\ Depth(j) = 1
         /\ \A c \in Clients, ch \in Channels : Owns(t, j, c, ch) <=> Owns(t, k, c, ch)
         /\ j.at \in {"terminate", "locking"}
<1> DEFINE j == Onward(k, t)
<1>1. /\ k.pc \in Clients /\ t \in Closers \cup EventThreads
      /\ k.locked => t \in EventThreads
      /\ k.at # "entering" => t \in Closers
      /\ t \in Closers => t \notin EventThreads
  BY Distinct DEF Shape, Role
<1>2. CASE t \in EventThreads
  <2>1. /\ j \in Calls /\ j.at = "terminate" /\ j.pc = k.pc /\ j.locked = k.locked
    BY <1>2, AtIs DEF Onward, Places
  <2> HIDE DEF j
  <2>2. Shape(t, j)
    BY <1>1, <1>2, <2>1 DEF Shape, Role, Locking, Unlocking
  <2>3. Good(j)
    BY <2>1 DEF Good, OpensWell, ClosesWell, LocksWell, Keeps, Order
  <2>4. Networks(j) /\ Depth(j) = 1
    BY <2>1 DEF Networks, Depth
  <2>5. \A c \in Clients, ch \in Channels : Owns(t, j, c, ch) <=> Owns(t, k, c, ch)
    BY <1>1, <1>2, <2>1 DEF Owns
  <2> QED BY <2>1, <2>2, <2>3, <2>4, <2>5 DEF j
<1>3. CASE t \notin EventThreads
  <2>0. Both \in Seq(Channels) /\ "terminate" \in Places /\ "leave" \in Places
    BY WordsAre DEF Places
  <2>1. j = ToLock(k, Both, "terminate", "leave")
    BY <1>3 DEF Onward, Both
  <2>2. /\ j \in Calls /\ j.at = "locking" /\ j.todo = Both /\ j.done = Nil
        /\ j.ok = "terminate" /\ j.no = "leave" /\ j.pc = k.pc /\ j.locked = k.locked
    BY <2>0, <2>1, ToLockIs
  <2> HIDE DEF j
  <2>3. Shape(t, j)
    BY <1>1, <1>3, <2>2 DEF Shape, Role, Locking, Unlocking, Relocks
  <2>4. Good(j)
    BY <2>2 DEF Good, OpensWell, ClosesWell, LocksWell, Keeps, Order
  <2>5. Networks(j) /\ Depth(j) = 1
    BY <2>2 DEF Networks, Depth
  <2>6. \A c \in Clients, ch \in Channels : Owns(t, j, c, ch) <=> Owns(t, k, c, ch)
    <3> TAKE c \in Clients, ch \in Channels
    <3>1. ~Owns(t, j, c, ch)
      BY <2>2, WordsAre DEF Owns, Channels
    <3>2. ~Owns(t, k, c, ch)
      BY <1>1, <1>3 DEF Owns
    <3> QED BY <3>1, <3>2
  <2> QED BY <2>2, <2>3, <2>4, <2>5, <2>6 DEF j
<1> QED BY <1>2, <1>3

\* The call at the end of a read event.
LEMMA DroppedIs ==
  ASSUME NEW t \in EventThreads, NEW k \in Calls, k.pc \in Clients
  PROVE  LET j == Dropped(k) IN
         /\ j \in Calls /\ Shape(t, j) /\ Good(j) /\ ~Networks(j)
         /\ \A c \in Clients, ch \in Channels : Owns(t, j, c, ch) <=> k.pc = c /\ k.locked /\ ch = 1
         /\ j.at \in {"unlocking", "idle"}
<1> DEFINE j == Dropped(k)
<1>0. t \in Threads /\ t \notin Closers
  BY Distinct DEF Threads
<1>1. CASE k.locked
  <2>0. Only(1) \in Seq(Channels) /\ "idle" \in Places
    BY WordsAre DEF Places
  <2>1. j = ToUnlock(k, Only(1), "idle")
    BY <1>1 DEF Dropped, Only
  <2>2. /\ j \in Calls /\ j.at = "unlocking" /\ j.todo = Only(1) /\ j.ok = "idle" /\ j.pc = k.pc /\ j.locked
    BY <1>1, <2>0, <2>1, ToUnlockIs
  <2> HIDE DEF j
  <2>3. Shape(t, j)
    BY <2>2 DEF Shape, Role, Locking, Unlocking, Onwards
  <2>4. Good(j)
    BY <2>2 DEF Good, OpensWell, ClosesWell, LocksWell, Keeps, Order
  <2>5. ~Networks(j)
    BY <2>2 DEF Networks
  <2>6. \A c \in Clients, ch \in Channels : Owns(t, j, c, ch) <=> k.pc = c /\ k.locked /\ ch = 1
    BY <1>1, <2>2, WordsAre DEF Owns, Channels
  <2> QED BY <2>2, <2>3, <2>4, <2>5, <2>6 DEF j
<1>2. CASE ~k.locked
  <2>1. j = NoCall
    BY <1>2 DEF Dropped
  <2> QED BY <1>0, <1>2, <2>1, NoCallIs, NoCallKept
<1> QED BY <1>1, <1>2

\* The look at recyclePending: UnlockTest keeps the invariant, PendingHasRecycler with it.
LEMMA UnlockTestKeeps ==
  ASSUME Inv, ~fault, NEW t \in Threads, UnlockTest(t)
  PROVE  Inv'
<1> DEFINE k == IF Due(thread[t].pc) THEN At(thread[t], "recheck") ELSE Unlocked(thread[t])
<1>1. thread[t] \in Calls /\ Shape(t, thread[t]) /\ Typed /\ Working
  BY Unpack
<1>2. /\ thread[t].at = "unlocked" /\ thread' = [thread EXCEPT ![t] = k]
      /\ UNCHANGED <<lists, state, csLock, csNetwork, connection, fault>> /\ opens' = opens
  BY DEF UnlockTest, history
<1>3. opens' \in 0..MaxOpens
  BY <1>1, <1>2 DEF Typed
<1>4. CASE Due(thread[t].pc)
  <2>1. /\ k \in Calls /\ k.at = "recheck" /\ k.todo = thread[t].todo /\ k.ok = thread[t].ok
        /\ k.pc = thread[t].pc /\ k.locked = thread[t].locked
    BY <1>1, <1>4, AtIs DEF Places
  <2> HIDE DEF k
  <2>2. \A c \in Clients, ch \in Channels : ~Owns(t, thread[t], c, ch) /\ ~Owns(t, k, c, ch)
    <3> TAKE c \in Clients, ch \in Channels
    <3>1. ~Owns(t, k, c, ch)
      BY <2>1 DEF Owns
    <3>2. ASSUME Owns(t, thread[t], c, ch) PROVE FALSE
      <4>1. c = thread[t].pc /\ csLock[c][ch].owner = t /\ csLock[c][ch].locks \in {0, 1}
        BY <1>1, <3>2 DEF Owns, Working, OwnInv
      <4>2. csLock[c][ch].locks # 0
        BY <4>1, Distinct DEF Inv, SectionsOK
      <4> QED BY <1>4, <4>1, <4>2 DEF Due, Held
    <3> QED BY <3>1, <3>2
  <2>3. thread[t].todo # Both
    <3>1. thread[t].todo = Both => Owns(t, thread[t], thread[t].pc, 1)
      BY <1>2 DEF Owns
    <3>2. thread[t].pc \in Clients
      BY <1>1, <1>2 DEF Shape, Role
    <3> QED BY <2>2, <3>1, <3>2 DEF Channels
  <2>4. Shape(t, k)
    BY <1>1, <1>2, <2>1, <2>3 DEF Shape, Role, Locking, Unlocking
  <2>5. Good(k)
    BY <2>1 DEF Good, OpensWell, ClosesWell, LocksWell, Keeps, Order
  <2>6. Networks(k) <=> Networks(thread[t])
    BY <1>2, <2>1 DEF Networks
  <2>7. k.at \notin Order
    BY <2>1 DEF Order
  <2> QED BY <1>2, <1>3, <2>1, <2>2, <2>4, <2>5, <2>6, <2>7, QuietStep
<1>5. CASE ~Due(thread[t].pc)
  <2>1. k = Unlocked(thread[t])
    BY <1>5
  <2> HIDE DEF k
  <2>2. /\ k \in Calls /\ Shape(t, k) /\ Good(k) /\ (Networks(k) <=> thread[t].ok # "idle")
        /\ \A c \in Clients, ch \in Channels : Owns(t, k, c, ch) <=> Owns(t, thread[t], c, ch)
        /\ k.at \in {"unlocking", "idle", "refused", "finish", "leave"}
    BY <1>1, <1>2, <2>1, UnlockedIs
  <2>3. Networks(k) <=> Networks(thread[t])
    BY <1>2, <2>2 DEF Networks
  <2>4. k.at \notin Order
    BY <2>2 DEF Order
  <2> QED BY <1>2, <1>3, <1>5, <2>2, <2>3, <2>4, QuietStep
<1> QED BY <1>4, <1>5

\* OpenCall keeps the invariant.
LEMMA OpenCallKeeps ==
  ASSUME Inv, ~fault, NEW t \in Threads, OpenCall(t)
  PROVE  Inv'
<1> DEFINE k == [thread[t] EXCEPT !.at = "getting", !.connection = opens + 1]
<1>1. thread[t] \in Calls /\ Shape(t, thread[t]) /\ Typed
  BY Unpack
<1>2. /\ thread[t].at = "idle" /\ thread' = [thread EXCEPT ![t] = k] /\ t \in Openers
      /\ UNCHANGED <<lists, state, csLock, csNetwork, connection, fault>> /\ opens' = opens + 1 /\ opens < MaxOpens
  BY <1>1 DEF OpenCall, Typed
<1>3. opens' \in 0..MaxOpens /\ opens + 1 \in 0..MaxOpens
  BY <1>1, <1>2, Distinct DEF Typed
<1>4. k \in Calls /\ k.at = "getting" /\ k.pc = thread[t].pc /\ k.locked = thread[t].locked
  BY <1>1, <1>3 DEF Calls, Places
<1> HIDE DEF k
<1>5. Shape(t, k)
  BY <1>1, <1>2, <1>4 DEF Shape, Role, Locking, Unlocking
<1>6. Good(k)
  BY <1>4 DEF Good, OpensWell, ClosesWell, LocksWell, Keeps, Order
<1>7. \A c \in Clients, ch \in Channels : Owns(t, k, c, ch) <=> Owns(t, thread[t], c, ch)
  BY <1>2, <1>4 DEF Owns
<1>8. (Networks(k) <=> Networks(thread[t])) /\ k.at \notin Order
  BY <1>2, <1>4 DEF Networks, Order
<1> QED BY <1>2, <1>3, <1>4, <1>5, <1>6, <1>7, <1>8, QuietStep

(***************************************************************************)
(* Locking a client whose serial was kept                                  *)
(***************************************************************************)

\* What is known of a thread that is idle.
LEMMA IdleIs ==
  ASSUME NEW t \in Threads, NEW k \in Calls, k.at = "idle"
  PROVE  ~Networks(k) /\ \A c \in Clients, ch \in Channels : ~Owns(t, k, c, ch)
<1>1. ~Networks(k)
  BY DEF Networks
<1>2. \A c \in Clients, ch \in Channels : ~Owns(t, k, c, ch)
  BY DEF Owns
<1> QED BY <1>1, <1>2

\* LockCall keeps the invariant: what it keeps of the client is what the client is.
LEMMA LockCallKeeps ==
  ASSUME Inv, ~fault, NEW t \in Threads, LockCall(t)
  PROVE  Inv'
<1>1. thread[t] \in Calls /\ Typed /\ FlagInv
  BY Unpack
<1>2. PICK c \in Clients, ch \in Channels :
        /\ NetworkClientValid(c, serial[c])
        /\ thread' = [thread EXCEPT ![t] =
             ToLock([NoCall EXCEPT !.pc = c, !.serial = serial[c], !.connection = connection[c]],
                    <<ch>>, "validate", "lockRefused")]
  BY DEF LockCall
<1> DEFINE j == [NoCall EXCEPT !.pc = c, !.serial = serial[c], !.connection = connection[c]]
           k == ToLock(j, Only(ch), "validate", "lockRefused")
<1>3. /\ thread[t].at = "idle" /\ thread' = [thread EXCEPT ![t] = k] /\ t \in Lockers
      /\ UNCHANGED <<lists, state, csLock, csNetwork, connection, fault>> /\ opens' = opens
  BY <1>2 DEF LockCall, Only, history
<1>4. opens' \in 0..MaxOpens
  BY <1>1, <1>3 DEF Typed
<1>5. j \in Calls /\ j.pc = c /\ j.serial = serial[c] /\ j.connection = connection[c] /\ ~j.locked
  <2>1. serial[c] \in Nat /\ connection[c] \in 0..MaxOpens
    BY <1>1 DEF Typed
  <2> QED BY <2>1, NoCallIs DEF Calls
<1>6. Only(ch) \in {Only(0), Only(1)} /\ Only(ch) \in Seq(Channels) /\ "validate" \in Places /\ "lockRefused" \in Places
  BY WordsAre DEF Channels, Places
<1> HIDE DEF j
<1>7. /\ k \in Calls /\ k.at = "locking" /\ k.todo = Only(ch) /\ k.done = Nil /\ k.ok = "validate"
      /\ k.no = "lockRefused" /\ k.pc = c /\ k.serial = serial[c] /\ k.connection = connection[c] /\ ~k.locked
  BY <1>5, <1>6, ToLockIs DEF Nil
<1> HIDE DEF k
<1>8. Shape(t, k)
  BY <1>3, <1>6, <1>7 DEF Shape, Role, Locking, Unlocking
<1>9. Good(k)
  BY <1>2, <1>7 DEF Good, OpensWell, ClosesWell, LocksWell, Keeps, Order, NetworkClientValid
<1>10. \A d \in Clients, h \in Channels : ~Owns(t, k, d, h)
  BY <1>7, WordsAre DEF Owns, Channels
<1>11. ~Networks(k) /\ k.at \notin Order
  BY <1>7 DEF Networks, Order
<1>12. /\ \A d \in Clients, h \in Channels : Owns(t, k, d, h) <=> Owns(t, thread[t], d, h)
       /\ Networks(k) <=> Networks(thread[t])
  BY <1>1, <1>3, <1>10, <1>11, IdleIs
<1> QED BY <1>3, <1>4, <1>7, <1>8, <1>9, <1>11, <1>12, QuietStep

\* LockAgain keeps the invariant.
LEMMA LockAgainKeeps ==
  ASSUME Inv, ~fault, NEW t \in Threads, LockAgain(t)
  PROVE  Inv'
<1> DEFINE valid == NetworkClientValid(thread[t].pc, thread[t].serial)
           k == IF valid THEN At(thread[t], "locking") ELSE NoCall
<1>1. thread[t] \in Calls /\ Shape(t, thread[t]) /\ Good(thread[t]) /\ Typed
  BY Unpack
<1>2. /\ thread[t].at = "lockRefused" /\ thread' = [thread EXCEPT ![t] = k]
      /\ UNCHANGED <<lists, state, csLock, csNetwork, connection, fault>> /\ opens' = opens
  BY DEF LockAgain, history
<1>3. opens' \in 0..MaxOpens
  BY <1>1, <1>2 DEF Typed
<1>4. ~Networks(thread[t]) /\ \A c \in Clients, ch \in Channels : ~Owns(t, thread[t], c, ch)
  <2>1. ~Networks(thread[t])
    BY <1>2 DEF Networks
  <2>2. \A c \in Clients, ch \in Channels : ~Owns(t, thread[t], c, ch)
    BY <1>2 DEF Owns
  <2> QED BY <2>1, <2>2
<1>5. CASE valid
  <2>1. /\ k \in Calls /\ k.at = "locking"
        /\ k.todo = thread[t].todo /\ k.done = thread[t].done /\ k.ok = thread[t].ok /\ k.no = thread[t].no
        /\ k.pc = thread[t].pc /\ k.serial = thread[t].serial
        /\ k.connection = thread[t].connection /\ k.locked = thread[t].locked
    BY <1>1, <1>5, AtIs DEF Places
  <2> HIDE DEF k
  <2>2. t \in Lockers /\ thread[t].todo \in {Only(0), Only(1)} /\ thread[t].done = Nil
        /\ thread[t].ok = "validate" /\ thread[t].no = "lockRefused"
    BY <1>1, <1>2 DEF Shape, Role, Locking
  <2>3. Shape(t, k)
    BY <1>1, <1>2, <2>1, <2>2 DEF Shape, Role, Locking, Unlocking
  <2>4. Good(k)
    BY <1>1, <1>2, <2>1, <2>2 DEF Good, OpensWell, ClosesWell, LocksWell, Keeps, Order
  <2>5. \A c \in Clients, ch \in Channels : ~Owns(t, k, c, ch)
    BY <2>1, <2>2, WordsAre DEF Owns, Channels
  <2>6. ~Networks(k) /\ k.at \notin Order
    BY <2>1, <2>2 DEF Networks, Order
  <2>7. /\ \A d \in Clients, h \in Channels : Owns(t, k, d, h) <=> Owns(t, thread[t], d, h)
        /\ Networks(k) <=> Networks(thread[t])
    BY <1>4, <2>5, <2>6
  <2> QED BY <1>2, <1>3, <2>1, <2>3, <2>4, <2>6, <2>7, QuietStep
<1>6. CASE ~valid
  <2>1. k = NoCall
    BY <1>6
  <2> HIDE DEF k
  <2>2. k \in Calls /\ k.at = "idle" /\ Shape(t, k) /\ Good(k)
    BY <2>1, NoCallIs, NoCallKept
  <2>3. /\ \A d \in Clients, h \in Channels : Owns(t, k, d, h) <=> Owns(t, thread[t], d, h)
        /\ Networks(k) <=> Networks(thread[t])
    BY <1>4, <2>2, IdleIs
  <2>4. k.at \notin Order
    BY <2>2 DEF Order
  <2> QED BY <1>2, <1>3, <2>2, <2>3, <2>4, QuietStep
<1> QED BY <1>5, <1>6

\* A locker unlocks what it has locked.
LEMMA ReleaseStep ==
  ASSUME Inv, ~fault, NEW t \in Threads, thread[t].at \in {"validate", "holding"},
         thread' = [thread EXCEPT ![t] = ToUnlock(@, @.done, "idle")],
         UNCHANGED <<lists, state, csLock, csNetwork, history, fault>>
  PROVE  Inv'
<1> DEFINE k == ToUnlock(thread[t], thread[t].done, "idle")
<1>1. thread[t] \in Calls /\ Shape(t, thread[t]) /\ Typed
  BY Unpack
<1>2. /\ thread' = [thread EXCEPT ![t] = k]
      /\ UNCHANGED <<lists, state, csLock, csNetwork, connection, fault>> /\ opens' \in 0..MaxOpens
  BY <1>1 DEF history, Typed
<1>3. t \in Lockers /\ t \notin EventThreads /\ thread[t].pc \in Clients /\ thread[t].done \in {Only(0), Only(1)}
      /\ thread[t].done \in Seq(Channels)
  <2>1. t \in Lockers /\ thread[t].pc \in Clients /\ thread[t].done \in {Only(0), Only(1)}
    BY <1>1 DEF Shape, Role, Locking
  <2>2. t \notin EventThreads
    BY <2>1, Distinct
  <2>3. thread[t].done \in Seq(Channels)
    BY <2>1, WordsAre
  <2> QED BY <2>1, <2>2, <2>3
<1>4. /\ k \in Calls /\ k.at = "unlocking" /\ k.todo = thread[t].done /\ k.ok = "idle"
      /\ k.pc = thread[t].pc /\ k.locked = thread[t].locked
  <2>1. "idle" \in Places /\ thread[t].done \in Seq(Channels)
    BY <1>3 DEF Places
  <2> QED BY <1>1, <2>1, ToUnlockIs
<1> HIDE DEF k
<1>5. Shape(t, k)
  BY <1>1, <1>3, <1>4 DEF Shape, Role, Locking, Unlocking, Onwards
<1>6. Good(k)
  BY <1>4 DEF Good, OpensWell, ClosesWell, LocksWell, Keeps, Order
<1>7. \A d \in Clients, h \in Channels : Owns(t, k, d, h) <=> Owns(t, thread[t], d, h)
  <2> TAKE d \in Clients, h \in Channels
  <2>1. Owns(t, k, d, h) <=> k.pc = d /\ thread[t].done = Only(h)
    BY <1>3, <1>4, WordsAre DEF Owns
  <2>2. Owns(t, thread[t], d, h) <=> k.pc = d /\ thread[t].done = Only(h)
    BY <1>4 DEF Owns
  <2> QED BY <2>1, <2>2
<1>8. (Networks(k) <=> Networks(thread[t])) /\ k.at \notin Order
  BY <1>4 DEF Networks, Order
<1> QED BY <1>2, <1>4, <1>5, <1>6, <1>7, <1>8, QuietStep

\* Validate keeps the invariant: the serial is found to be the one that was kept.
LEMMA ValidateKeeps ==
  ASSUME Inv, ~fault, NEW t \in Threads, Validate(t)
  PROVE  Inv'
<1> DEFINE valid == NetworkClientValid(thread[t].pc, thread[t].serial)
           k == At(thread[t], "holding")
<1>1. thread[t] \in Calls /\ Shape(t, thread[t]) /\ Good(thread[t]) /\ Typed
  BY Unpack
<1>2. /\ thread[t].at = "validate"
      /\ UNCHANGED <<lists, state, csLock, csNetwork, connection, fault>> /\ opens' \in 0..MaxOpens
  BY <1>1 DEF Validate, history, Typed
<1>3. CASE ~valid
  <2>1. thread' = [thread EXCEPT ![t] = ToUnlock(@, @.done, "idle")]
    BY <1>3 DEF Validate
  <2>2. UNCHANGED <<lists, state, csLock, csNetwork, history, fault>>
    BY DEF Validate
  <2> QED BY <1>2, <2>1, <2>2, ReleaseStep
<1>4. CASE valid
  <2>1. thread' = [thread EXCEPT ![t] = k]
    BY <1>4 DEF Validate
  <2>2. /\ k \in Calls /\ k.at = "holding" /\ k.done = thread[t].done
        /\ k.pc = thread[t].pc /\ k.serial = thread[t].serial
        /\ k.connection = thread[t].connection /\ k.locked = thread[t].locked
    BY <1>1, AtIs DEF Places
  <2> HIDE DEF k
  <2>3. Shape(t, k)
    BY <1>1, <1>2, <2>2 DEF Shape, Role, Locking, Unlocking
  <2>4. Good(k)
    BY <1>1, <1>2, <1>4, <2>2 DEF Good, OpensWell, ClosesWell, LocksWell, Keeps, Order, NetworkClientValid
  <2>5. \A d \in Clients, h \in Channels : Owns(t, k, d, h) <=> Owns(t, thread[t], d, h)
    BY <1>2, <2>2 DEF Owns
  <2>6. (Networks(k) <=> Networks(thread[t])) /\ k.at \notin Order
    BY <1>2, <2>2 DEF Networks, Order
  <2> QED BY <1>2, <2>1, <2>2, <2>3, <2>4, <2>5, <2>6, QuietStep
<1> QED BY <1>3, <1>4

\* Release keeps the invariant.
LEMMA ReleaseKeeps ==
  ASSUME Inv, ~fault, NEW t \in Threads, Release(t)
  PROVE  Inv'
<1>1. /\ thread[t].at \in {"validate", "holding"}
      /\ thread' = [thread EXCEPT ![t] = ToUnlock(@, @.done, "idle")]
      /\ UNCHANGED <<lists, state, csLock, csNetwork, history, fault>>
  BY DEF Release
<1> QED BY <1>1, ReleaseStep

\* RemoveCall keeps the invariant.
LEMMA RemoveCallKeeps ==
  ASSUME Inv, ~fault, NEW t \in Threads, RemoveCall(t)
  PROVE  Inv'
<1>1. thread[t] \in Calls /\ Typed
  BY Unpack
<1>2. PICK c \in Clients : thread' = [thread EXCEPT ![t] = [NoCall EXCEPT !.at = "entering", !.pc = c]]
  BY DEF RemoveCall
<1> DEFINE k == [NoCall EXCEPT !.at = "entering", !.pc = c]
<1>3. /\ thread[t].at = "idle" /\ thread' = [thread EXCEPT ![t] = k] /\ t \in Closers
      /\ UNCHANGED <<lists, state, csLock, csNetwork, connection, fault>> /\ opens' \in 0..MaxOpens
  BY <1>1, <1>2 DEF RemoveCall, history, Typed
<1>4. k \in Calls /\ k.at = "entering" /\ k.pc = c /\ ~k.locked
  BY NoCallIs DEF Calls, Places
<1> HIDE DEF k
<1>5. Shape(t, k)
  BY <1>3, <1>4 DEF Shape, Role, Locking, Unlocking
<1>6. Good(k)
  BY <1>4 DEF Good, OpensWell, ClosesWell, LocksWell, Keeps, Order
<1>7. ~Networks(k) /\ k.at \notin Order /\ \A d \in Clients, h \in Channels : ~Owns(t, k, d, h)
  BY <1>4 DEF Networks, Order, Owns
<1>8. /\ \A d \in Clients, h \in Channels : Owns(t, k, d, h) <=> Owns(t, thread[t], d, h)
      /\ Networks(k) <=> Networks(thread[t])
  BY <1>1, <1>3, <1>7, IdleIs
<1> QED BY <1>3, <1>4, <1>5, <1>6, <1>7, <1>8, QuietStep

\* RemoveClient begins to lock the client, with csNetwork.
LEMMA RetryIs ==
  ASSUME NEW t \in Closers, NEW k \in Calls, k.pc \in Clients, ~k.locked
  PROVE  LET j == ToLock(k, <<0, 1>>, "locked", "refused") IN
         /\ j \in Calls /\ Shape(t, j) /\ Good(j) /\ Networks(j) /\ Depth(j) = 1
         /\ \A c \in Clients, ch \in Channels : ~Owns(t, j, c, ch)
         /\ j.at = "locking"
<1> DEFINE j == ToLock(k, Both, "locked", "refused")
<1>1. Both \in Seq(Channels) /\ "locked" \in Places /\ "refused" \in Places
  BY WordsAre DEF Places
<1>2. /\ j \in Calls /\ j.at = "locking" /\ j.todo = Both /\ j.done = Nil
      /\ j.ok = "locked" /\ j.no = "refused" /\ j.pc = k.pc /\ j.locked = k.locked
  BY <1>1, ToLockIs
<1> HIDE DEF j
<1>3. Shape(t, j)
  BY <1>2 DEF Shape, Role, Locking, Unlocking, Relocks
<1>4. Good(j)
  BY <1>2 DEF Good, OpensWell, ClosesWell, LocksWell, Keeps, Order
<1>5. Networks(j) /\ Depth(j) = 1
  BY <1>2 DEF Networks, Depth
<1>6. \A c \in Clients, ch \in Channels : ~Owns(t, j, c, ch)
  BY <1>2, WordsAre DEF Owns, Channels
<1> QED BY <1>2, <1>3, <1>4, <1>5, <1>6 DEF j, Both

\* RemoveAgain keeps the invariant.
LEMMA RemoveAgainKeeps ==
  ASSUME Inv, ~fault, NEW t \in Threads, RemoveAgain(t)
  PROVE  Inv'
<1> DEFINE k == IF "CF_ACTIVE" \in flags[thread[t].pc] THEN ToLock(thread[t], <<0, 1>>, "locked", "refused")
                ELSE Onward(thread[t], t)
<1>1. thread[t] \in Calls /\ Shape(t, thread[t]) /\ Typed
  BY Unpack
<1>2. /\ thread[t].at = "refused" /\ thread' = [thread EXCEPT ![t] = k]
      /\ UNCHANGED <<lists, state, csLock, csNetwork, connection, fault>> /\ opens' \in 0..MaxOpens
  BY <1>1 DEF RemoveAgain, history, Typed
<1>3. t \in Closers /\ thread[t].pc \in Clients /\ ~thread[t].locked
  BY <1>1, <1>2, Distinct DEF Shape, Role
<1>4. Networks(thread[t]) /\ \A c \in Clients, ch \in Channels : ~Owns(t, thread[t], c, ch)
  BY <1>2 DEF Networks, Owns
<1>5. /\ k \in Calls /\ Shape(t, k) /\ Good(k) /\ Networks(k)
      /\ \A c \in Clients, ch \in Channels : ~Owns(t, k, c, ch)
      /\ k.at \in {"terminate", "locking"}
  <2>1. CASE "CF_ACTIVE" \in flags[thread[t].pc]
    BY <1>1, <1>3, <2>1, RetryIs
  <2>2. CASE "CF_ACTIVE" \notin flags[thread[t].pc]
    <3>1. k = Onward(thread[t], t)
      BY <2>2
    <3> HIDE DEF k
    <3> QED BY <1>1, <1>2, <1>4, <3>1, OnwardIs
  <2> QED BY <2>1, <2>2
<1> HIDE DEF k
<1>6. k.at \notin Order
  BY <1>5 DEF Order
<1> QED BY <1>2, <1>4, <1>5, <1>6, QuietStep

\* Finish keeps the invariant.
LEMMA FinishKeeps ==
  ASSUME Inv, ~fault, NEW t \in Threads, Finish(t)
  PROVE  Inv'
<1> DEFINE k == Onward(thread[t], t)
<1>1. thread[t] \in Calls /\ Shape(t, thread[t]) /\ Typed
  BY Unpack
<1>2. /\ thread[t].at = "finish" /\ thread' = [thread EXCEPT ![t] = k]
      /\ UNCHANGED <<lists, state, csLock, csNetwork, connection, fault>> /\ opens' \in 0..MaxOpens
  BY <1>1 DEF Finish, history, Typed
<1>3. /\ k \in Calls /\ Shape(t, k) /\ Good(k) /\ Networks(k)
      /\ \A c \in Clients, ch \in Channels : Owns(t, k, c, ch) <=> Owns(t, thread[t], c, ch)
      /\ k.at \in {"terminate", "locking"}
  BY <1>1, <1>2, OnwardIs
<1> HIDE DEF k
<1>4. Networks(thread[t]) /\ k.at \notin Order
  BY <1>2, <1>3 DEF Networks, Order
<1> QED BY <1>2, <1>3, <1>4, QuietStep

(***************************************************************************)
(* RemoveClient and the read events                                        *)
(***************************************************************************)

\* InternalRemoveClient never finds a client that is neither active nor closed:
\* only one that is being opened would be, and that is not closed.
LEMMA EnterRemoveKeeps ==
  ASSUME Inv, Orderly, ~fault, NEW t \in Threads, EnterRemove(t)
  PROVE  Inv'
<1> DEFINE c == thread[t].pc
           k == IF socket[c] /\ "CF_ACTIVE" \in flags[c] THEN ToLock(thread[t], <<0, 1>>, "locked", "refused")
                ELSE Onward(thread[t], t)
           s == Entered(csNetwork, t)
<1>1. thread[t] \in Calls /\ Shape(t, thread[t]) /\ Typed /\ SectionsOK /\ Working /\ thread \in [Threads -> Calls]
  BY Unpack
<1>2. /\ thread[t].at = "entering" /\ Free(csNetwork, t) /\ csNetwork' = s
      /\ thread' = [thread EXCEPT ![t] = k]
      /\ UNCHANGED <<socket, recyclePending, csLock, connection, fault>> /\ opens' \in 0..MaxOpens
  BY <1>1 DEF EnterRemove, history, Typed
<1>3. /\ c \in Clients /\ t \in Closers \cup EventThreads /\ (thread[t].locked => t \in EventThreads)
      /\ t \in Closers => t \notin EventThreads
  BY <1>1, <1>2, Distinct DEF Shape, Role
<1>4. ~(socket[c] /\ flags[c] \cap CF_STATEFLAGS = {})
  <2>1. \A u \in Openers : ~Fresh(thread[u], c)
    BY <1>2 DEF Orderly, NoLateClose
  <2> QED BY <1>1, <1>3, <2>1 DEF Working, KnownInv
<1>5. UNCHANGED <<lists, state>>
  BY <1>2, <1>4 DEF EnterRemove, lists, state
<1>6. csNetwork = Blank
  <2>1. ~Networks(thread[t]) /\ thread[t].at # "callback"
    BY <1>2 DEF Networks
  <2>2. csNetwork.owner = None /\ csNetwork.locks = 0 /\ csNetwork \in Sections
    BY <1>1, <1>2, <2>1 DEF Working, NetInv, Free, SectionsOK, Typed
  <2> QED BY <2>2 DEF Sections, Blank
<1>7. s = [owner |-> t, locks |-> 1] /\ s \in Sections
  BY <1>6 DEF Entered, Blank, Sections
<1>8. /\ k \in Calls /\ Shape(t, k) /\ Good(k) /\ Networks(k) /\ Depth(k) = 1
      /\ \A d \in Clients, ch \in Channels : Owns(t, k, d, ch) <=> Owns(t, thread[t], d, ch)
      /\ k.at \in {"terminate", "locking"}
  <2>1. CASE socket[c] /\ "CF_ACTIVE" \in flags[c]
    <3>1. t \in Closers /\ ~thread[t].locked
      BY <1>2, <1>3, <2>1 DEF Orderly, NoLateClose
    <3>2. k = ToLock(thread[t], <<0, 1>>, "locked", "refused")
      BY <2>1
    <3>3. \A d \in Clients, ch \in Channels : ~Owns(t, thread[t], d, ch)
      BY <1>2, <3>1 DEF Owns
    <3> HIDE DEF k
    <3> QED BY <1>1, <1>3, <3>1, <3>2, <3>3, RetryIs
  <2>2. CASE ~(socket[c] /\ "CF_ACTIVE" \in flags[c])
    <3>1. k = Onward(thread[t], t)
      BY <2>2
    <3> HIDE DEF k
    <3> QED BY <1>1, <1>2, <3>1, OnwardIs
  <2> QED BY <2>1, <2>2
<1> HIDE DEF k, s, c
<1>9. /\ csLock' \in [Clients -> [Channels -> Sections]] /\ csNetwork' \in Sections
      /\ SectionsOK' /\ OwnInv' /\ NetInv'
  <2>1. OwnInv /\ NetInv /\ csNetwork.owner \in {None, t} /\ csLock' = csLock /\ csNetwork' = s
    BY <1>1, <1>2 DEF Working, Free
  <2>2. s.owner = t /\ s.locks = 1
    BY <1>7
  <2>3. /\ thread' = [thread EXCEPT ![t] = k] /\ k \in Calls /\ Typed /\ SectionsOK
        /\ Networks(k) /\ s = [owner |-> t, locks |-> Depth(k)]
        /\ \A d \in Clients, ch \in Channels : Owns(t, k, d, ch) <=> Owns(t, thread[t], d, ch)
    BY <1>1, <1>2, <1>7, <1>8
  <2>4. s \in Sections /\ (s.owner = t /\ s.locks # 0)
    BY <1>7, <2>2
  <2> QED BY <2>1, <2>2, <2>3, <2>4, NetworkStep
<1>10. PendingHasRecycler'
  <2>1. csLock' = csLock /\ recyclePending' = recyclePending
    BY <1>2
  <2>2. \A d \in Clients : Held(d)' <=> Held(d)
    BY <2>1 DEF Held
  <2> QED BY <1>1, <1>2, <2>1, <2>2, PendingStep DEF Working
<1>11. k.at \notin Order
  BY <1>8 DEF Order
<1> QED BY <1>2, <1>5, <1>8, <1>9, <1>10, <1>11, ThreadStep

\* A thread leaves csNetwork, which it has once.
LEMMA LeaveStep ==
  ASSUME Inv, ~fault, NEW t \in Threads, NEW k \in Calls,
         thread[t].at \in {"locked", "leave"},
         thread' = [thread EXCEPT ![t] = k], csNetwork' = Left(csNetwork),
         UNCHANGED <<lists, state, csLock, history, fault>>,
         Shape(t, k), Good(k), ~Networks(k), k.at \in {"notify", "unmark", "idle"},
         k.at = "notify" => thread[t].at = "locked" /\ k.pc = thread[t].pc,
         \A d \in Clients, ch \in Channels : Owns(t, k, d, ch) <=> Owns(t, thread[t], d, ch)
  PROVE  Inv'
<1>1. Typed /\ SectionsOK /\ Working /\ thread \in [Threads -> Calls]
  BY Unpack
<1>2. csNetwork = [owner |-> t, locks |-> 1]
  <2>1. Networks(thread[t]) /\ Depth(thread[t]) = 1
    BY DEF Networks, Depth
  <2> QED BY <1>1, <2>1 DEF Working, NetInv
<1>3. csNetwork' = Blank /\ Blank \in Sections /\ Blank.owner = None /\ Blank.locks = 0
  BY <1>2 DEF Left, Blank, Sections
<1>4. /\ csLock' \in [Clients -> [Channels -> Sections]] /\ csNetwork' \in Sections
      /\ SectionsOK' /\ OwnInv' /\ NetInv'
  <2>1. OwnInv /\ NetInv /\ csNetwork.owner \in {None, t} /\ csLock' = csLock
    BY <1>1, <1>2 DEF Working
  <2>2. Blank.owner # t
    BY <1>3, Distinct
  <2> QED BY <1>1, <1>3, <2>1, <2>2, NetworkStep
<1>5. PendingHasRecycler'
  <2>1. csLock' = csLock /\ recyclePending' = recyclePending
    BY DEF state
  <2>2. \A d \in Clients : Held(d)' <=> Held(d)
    BY <2>1 DEF Held
  <2> QED BY <1>1, <2>1, <2>2, PendingStep DEF Working
<1>6. ASSUME k.at \in Order, NEW u \in Threads \ {t}, thread[u].at = "clearing" PROVE thread[u].pc # k.pc
  <2>1. thread[t].at \in Order /\ k.pc = thread[t].pc
    BY <1>6 DEF Order
  <2> QED BY <1>1, <1>6, <2>1 DEF Working, ClearInv
<1>7. opens' \in 0..MaxOpens /\ UNCHANGED <<lists, state, connection, fault>>
  BY <1>1 DEF Typed, history
<1> QED BY <1>4, <1>5, <1>6, <1>7, ThreadStep

\* Yield keeps the invariant.
LEMMA YieldKeeps ==
  ASSUME Inv, ~fault, NEW t \in Threads, Yield(t)
  PROVE  Inv'
<1> DEFINE k == At(thread[t], "notify")
<1>1. thread[t] \in Calls /\ Shape(t, thread[t]) /\ Good(thread[t])
  BY Unpack
<1>2. /\ thread[t].at = "locked" /\ csNetwork' = Left(csNetwork) /\ thread' = [thread EXCEPT ![t] = k]
      /\ UNCHANGED <<lists, state, csLock, history, fault>>
  BY DEF Yield, GoTo
<1>3. k \in Calls /\ k.at = "notify" /\ k.pc = thread[t].pc /\ k.locked = thread[t].locked
  BY <1>1, AtIs DEF Places
<1> HIDE DEF k
<1>4. Shape(t, k)
  BY <1>1, <1>2, <1>3 DEF Shape, Role, Locking, Unlocking
<1>5. Good(k)
  BY <1>1, <1>2, <1>3 DEF Good, OpensWell, ClosesWell, LocksWell, Keeps, Order
<1>6. ~Networks(k) /\ \A d \in Clients, ch \in Channels : Owns(t, k, d, ch) <=> Owns(t, thread[t], d, ch)
  BY <1>2, <1>3 DEF Networks, Owns
<1> QED BY <1>2, <1>3, <1>4, <1>5, <1>6, LeaveStep

\* LeaveNetwork keeps the invariant.
LEMMA LeaveNetworkKeeps ==
  ASSUME Inv, ~fault, NEW t \in Threads, LeaveNetwork(t)
  PROVE  Inv'
<1> DEFINE p == IF t \in EventThreads THEN "unmark" ELSE "idle"
           k == At(thread[t], p)
<1>1. thread[t] \in Calls /\ Shape(t, thread[t]) /\ Good(thread[t])
  BY Unpack
<1>2. /\ thread[t].at = "leave" /\ csNetwork' = Left(csNetwork) /\ thread' = [thread EXCEPT ![t] = k]
      /\ UNCHANGED <<lists, state, csLock, history, fault>>
  BY DEF LeaveNetwork, GoTo
<1>3. thread[t].pc \in Clients /\ t \in Closers \cup EventThreads /\ (thread[t].locked => t \in EventThreads)
  BY <1>1, <1>2 DEF Shape, Role
<1>4. CASE t \in EventThreads
  <2>1. k \in Calls /\ k.at = "unmark" /\ k.pc = thread[t].pc /\ k.locked = thread[t].locked
    BY <1>1, <1>4, AtIs DEF Places
  <2> HIDE DEF k
  <2>2. Shape(t, k)
    BY <1>3, <1>4, <2>1 DEF Shape, Role, Locking, Unlocking
  <2>3. Good(k)
    BY <2>1 DEF Good, OpensWell, ClosesWell, LocksWell, Keeps, Order
  <2>4. ~Networks(k) /\ \A d \in Clients, ch \in Channels : Owns(t, k, d, ch) <=> Owns(t, thread[t], d, ch)
    BY <1>2, <2>1 DEF Networks, Owns
  <2> QED BY <1>2, <2>1, <2>2, <2>3, <2>4, LeaveStep
<1>5. CASE t \notin EventThreads
  <2>1. k = NoCall
    BY <1>1, <1>5, AtIs DEF Places
  <2> HIDE DEF k
  <2>2. k \in Calls /\ k.at = "idle" /\ Shape(t, k) /\ Good(k) /\ ~Networks(k)
    BY <2>1, NoCallIs, NoCallKept
  <2>3. \A d \in Clients, ch \in Channels : ~Owns(t, k, d, ch)
    BY <2>1, NoCallKept
  <2>4. \A d \in Clients, ch \in Channels : ~Owns(t, thread[t], d, ch)
    BY <1>2, <1>3, <1>5 DEF Owns
  <2> QED BY <1>2, <2>2, <2>3, <2>4, LeaveStep
<1> QED BY <1>4, <1>5

\* EventCall keeps the invariant.
LEMMA EventCallKeeps ==
  ASSUME Inv, ~fault, NEW t \in Threads, EventCall(t)
  PROVE  Inv'
<1>0. Readable \subseteq Clients
  BY ClientsAssumption
<1>1. thread[t] \in Calls /\ Typed
  BY Unpack
<1>2. PICK c \in Readable : thread' = [thread EXCEPT ![t] =
                       ToLock([NoCall EXCEPT !.pc = c], <<1>>, "event", "eventRefused")]
  BY DEF EventCall
<1> DEFINE j == [NoCall EXCEPT !.pc = c]
           k == ToLock(j, Only(1), "event", "eventRefused")
<1>3. /\ thread[t].at = "idle" /\ thread' = [thread EXCEPT ![t] = k] /\ t \in EventThreads
      /\ UNCHANGED <<lists, state, csLock, csNetwork, connection, fault>> /\ opens' \in 0..MaxOpens
  BY <1>1, <1>2 DEF EventCall, Only, history, Typed
<1>4. j \in Calls /\ j.pc = c /\ ~j.locked /\ c \in Clients
  BY <1>0, NoCallIs DEF Calls
<1>5. Only(1) \in Seq(Channels) /\ "event" \in Places /\ "eventRefused" \in Places
  BY WordsAre DEF Places
<1> HIDE DEF j
<1>6. /\ k \in Calls /\ k.at = "locking" /\ k.todo = Only(1) /\ k.done = Nil /\ k.ok = "event"
      /\ k.no = "eventRefused" /\ k.pc = c /\ ~k.locked
  BY <1>4, <1>5, ToLockIs
<1> HIDE DEF k
<1>7. Shape(t, k)
  BY <1>3, <1>4, <1>6 DEF Shape, Role, Locking, Unlocking
<1>8. Good(k)
  BY <1>6 DEF Good, OpensWell, ClosesWell, LocksWell, Keeps, Order
<1>9. \A d \in Clients, h \in Channels : ~Owns(t, k, d, h)
  BY <1>6, WordsAre DEF Owns, Channels
<1>10. ~Networks(k) /\ k.at \notin Order
  BY <1>6 DEF Networks, Order
<1>11. /\ \A d \in Clients, h \in Channels : Owns(t, k, d, h) <=> Owns(t, thread[t], d, h)
       /\ Networks(k) <=> Networks(thread[t])
  BY <1>1, <1>3, <1>9, <1>10, IdleIs
<1> QED BY <1>3, <1>6, <1>7, <1>8, <1>10, <1>11, QuietStep

\* EventAgain keeps the invariant.
LEMMA EventAgainKeeps ==
  ASSUME Inv, ~fault, NEW t \in Threads, EventAgain(t)
  PROVE  Inv'
<1> DEFINE p == IF "CF_ACTIVE" \in flags[thread[t].pc] /\ "CF_AVAILABLE" \notin flags[thread[t].pc]
                THEN "locking" ELSE "event"
           k == At(thread[t], p)
<1>1. thread[t] \in Calls /\ Shape(t, thread[t]) /\ Good(thread[t]) /\ Typed
  BY Unpack
<1>2. /\ thread[t].at = "eventRefused" /\ thread' = [thread EXCEPT ![t] = k]
      /\ UNCHANGED <<lists, state, csLock, csNetwork, connection, fault>> /\ opens' \in 0..MaxOpens
  BY <1>1 DEF EventAgain, GoTo, history, Typed
<1>3. /\ t \in EventThreads /\ thread[t].pc \in Clients
      /\ thread[t].todo = Only(1) /\ thread[t].done = Nil /\ thread[t].ok = "event"
      /\ thread[t].no = "eventRefused" /\ ~thread[t].locked
  BY <1>1, <1>2 DEF Shape, Role, Locking
<1>4. p \in {"locking", "event"} /\ p \in Places /\ p # "idle"
  BY DEF Places
<1> HIDE DEF p
<1>5. /\ k \in Calls /\ k.at = p
      /\ k.todo = Only(1) /\ k.done = Nil /\ k.ok = "event" /\ k.no = "eventRefused"
      /\ k.pc = thread[t].pc /\ ~k.locked
  BY <1>1, <1>3, <1>4, AtIs
<1> HIDE DEF k
<1>6. Shape(t, k)
  BY <1>3, <1>4, <1>5 DEF Shape, Role, Locking, Unlocking
<1>7. Good(k)
  BY <1>4, <1>5 DEF Good, OpensWell, ClosesWell, LocksWell, Keeps, Order
<1>8. \A d \in Clients, h \in Channels : ~Owns(t, k, d, h)
  BY <1>4, <1>5, WordsAre DEF Owns, Channels
<1>9. ~Networks(k) /\ k.at \notin Order
  BY <1>4, <1>5 DEF Networks, Order
<1>10. ~Networks(thread[t]) /\ \A d \in Clients, h \in Channels : ~Owns(t, thread[t], d, h)
  BY <1>2 DEF Networks, Owns
<1>11. k.at \notin {"opening", "adding", "linking", "clearing"}
  BY <1>4, <1>5
<1> QED BY <1>2, <1>5, <1>6, <1>7, <1>8, <1>9, <1>10, <1>11, QuietStep

\* EventFlags keeps the invariant.
LEMMA EventFlagsKeeps ==
  ASSUME Inv, ~fault, NEW t \in Threads, EventFlags(t)
  PROVE  Inv'
<1> DEFINE c == thread[t].pc
           call == [thread[t] EXCEPT !.locked = thread[t].done # <<>>]
           over == flags[c] \cap {"CF_ACTIVE", "CF_CLOSED"} = {} \/ "CF_AVAILABLE" \in flags[c]
           k == IF over THEN Dropped(call) ELSE At(call, "eventSocket")
<1>1. thread[t] \in Calls /\ Shape(t, thread[t]) /\ Good(thread[t]) /\ Typed
  BY Unpack
<1>2. /\ thread[t].at = "event" /\ thread' = [thread EXCEPT ![t] = k]
      /\ UNCHANGED <<lists, state, csLock, csNetwork, connection, fault>> /\ opens' \in 0..MaxOpens
  BY <1>1 DEF EventFlags, history, Typed
<1>3. t \in EventThreads /\ c \in Clients /\ thread[t].done \in {Nil, Only(1)}
  BY <1>1, <1>2 DEF Shape, Role, Locking
<1>4. call \in Calls /\ call.pc = c /\ (call.locked <=> thread[t].done # Nil)
  BY <1>1 DEF Calls, Nil
<1>5. ~Networks(thread[t])
  BY <1>2 DEF Networks
<1>6. \A d \in Clients, h \in Channels : Owns(t, thread[t], d, h) <=> c = d /\ call.locked /\ h = 1
  BY <1>2, <1>3, <1>4, WordsAre DEF Owns, Channels
<1>7. /\ k \in Calls /\ Shape(t, k) /\ Good(k) /\ ~Networks(k)
      /\ \A d \in Clients, h \in Channels : Owns(t, k, d, h) <=> c = d /\ call.locked /\ h = 1
      /\ k.at \in {"unlocking", "idle", "eventSocket"}
  <2>1. CASE over
    <3>1. k = Dropped(call)
      BY <2>1
    <3> HIDE DEF k, call, over, c
    <3> QED BY <1>3, <1>4, <3>1, DroppedIs
  <2>2. CASE ~over
    <3>1. k = At(call, "eventSocket")
      BY <2>2
    <3> HIDE DEF k, call, over, c
    <3>2. k \in Calls /\ k.at = "eventSocket" /\ k.pc = c /\ k.locked = call.locked
      BY <1>4, <3>1, AtIs DEF Places
    <3>3. Shape(t, k)
      BY <1>3, <3>2 DEF Shape, Role, Locking, Unlocking
    <3>4. Good(k)
      BY <3>2 DEF Good, OpensWell, ClosesWell, LocksWell, Keeps, Order
    <3>5. ~Networks(k) /\ \A d \in Clients, h \in Channels : Owns(t, k, d, h) <=> c = d /\ call.locked /\ h = 1
      BY <3>2 DEF Networks, Owns
    <3> QED BY <3>2, <3>3, <3>4, <3>5
  <2> QED BY <2>1, <2>2
<1> HIDE DEF k, call, over, c
<1>8. k.at \notin Order
  BY <1>7 DEF Order
<1> QED BY <1>2, <1>5, <1>6, <1>7, <1>8, QuietStep

\* EventSocket keeps the invariant; the channel it unlocks may not be its own.
LEMMA EventSocketKeeps ==
  ASSUME Inv, ~fault, NEW t \in Threads, EventSocket(t)
  PROVE  Inv'
<1> DEFINE c == thread[t].pc
           k == IF ~socket[c] THEN ToUnlock(thread[t], <<1>>, "idle")
                ELSE IF "CF_CLOSED" \in flags[c] THEN At(thread[t], "entering")
                ELSE IF "CF_ACTIVE" \in flags[c] THEN At(thread[t], "reading")
                ELSE Dropped(thread[t])
<1>1. thread[t] \in Calls /\ Shape(t, thread[t]) /\ Good(thread[t]) /\ Typed
  BY Unpack
<1>2. /\ thread[t].at = "eventSocket" /\ thread' = [thread EXCEPT ![t] = k]
      /\ UNCHANGED <<lists, state, csLock, csNetwork, connection, fault>> /\ opens' \in 0..MaxOpens
  BY <1>1 DEF EventSocket, history, Typed
<1>3. t \in EventThreads /\ c \in Clients
  BY <1>1, <1>2 DEF Shape, Role
<1>4. ~Networks(thread[t])
  BY <1>2 DEF Networks
<1>5. \A d \in Clients, h \in Channels : Owns(t, thread[t], d, h) <=> c = d /\ thread[t].locked /\ h = 1
  BY <1>2 DEF Owns
<1>6. /\ k \in Calls /\ Shape(t, k) /\ Good(k) /\ ~Networks(k)
      /\ \A d \in Clients, h \in Channels : Owns(t, k, d, h) <=> c = d /\ thread[t].locked /\ h = 1
      /\ k.at \in {"unlocking", "idle", "entering", "reading"}
  <2>1. CASE k = ToUnlock(thread[t], <<1>>, "idle")
    <3> HIDE DEF k
    <3>0. Only(1) \in Seq(Channels) /\ "idle" \in Places /\ k = ToUnlock(thread[t], Only(1), "idle")
      BY <2>1, WordsAre DEF Places, Only
    <3>1. /\ k \in Calls /\ k.at = "unlocking" /\ k.todo = Only(1) /\ k.ok = "idle"
          /\ k.pc = c /\ k.locked = thread[t].locked
      BY <1>1, <3>0, ToUnlockIs
    <3>2. Shape(t, k)
      BY <1>3, <3>1 DEF Shape, Role, Locking, Unlocking, Onwards
    <3>3. Good(k)
      BY <3>1 DEF Good, OpensWell, ClosesWell, LocksWell, Keeps, Order
    <3>4. ~Networks(k)
      BY <3>1 DEF Networks
    <3>5. \A d \in Clients, h \in Channels : Owns(t, k, d, h) <=> c = d /\ thread[t].locked /\ h = 1
      BY <1>3, <3>1, WordsAre DEF Owns, Channels
    <3> QED BY <3>1, <3>2, <3>3, <3>4, <3>5
  <2>2. ASSUME NEW p \in {"entering", "reading"}, k = At(thread[t], p)
        PROVE  /\ k \in Calls /\ Shape(t, k) /\ Good(k) /\ ~Networks(k)
               /\ \A d \in Clients, h \in Channels : Owns(t, k, d, h) <=> c = d /\ thread[t].locked /\ h = 1
               /\ k.at \in {"unlocking", "idle", "entering", "reading"}
    <3> HIDE DEF k
    <3>0. p \in Places /\ p # "idle"
      BY DEF Places
    <3>1. k \in Calls /\ k.at = p /\ k.pc = c /\ k.locked = thread[t].locked
      BY <1>1, <2>2, <3>0, AtIs
    <3>2. Shape(t, k)
      BY <1>3, <3>1 DEF Shape, Role, Locking, Unlocking
    <3>3. Good(k)
      BY <3>1 DEF Good, OpensWell, ClosesWell, LocksWell, Keeps, Order
    <3>4. ~Networks(k)
      BY <3>1 DEF Networks
    <3>5. \A d \in Clients, h \in Channels : Owns(t, k, d, h) <=> c = d /\ thread[t].locked /\ h = 1
      BY <1>3, <3>1 DEF Owns
    <3> QED BY <3>1, <3>2, <3>3, <3>4, <3>5
  <2>3. CASE k = Dropped(thread[t])
    <3> HIDE DEF k
    <3> QED BY <1>1, <1>3, <2>3, DroppedIs
  <2>4. \/ k = ToUnlock(thread[t], <<1>>, "idle") \/ k = At(thread[t], "entering")
        \/ k = At(thread[t], "reading") \/ k = Dropped(thread[t])
    OBVIOUS
  <2> HIDE DEF k, c
  <2> QED BY <2>1, <2>2, <2>3, <2>4
<1> HIDE DEF k, c
<1>7. k.at \notin Order
  BY <1>6 DEF Order
<1> QED BY <1>2, <1>4, <1>5, <1>6, <1>7, QuietStep

\* Read keeps the invariant.
LEMMA ReadKeeps ==
  ASSUME Inv, ~fault, NEW t \in Threads, Read(t)
  PROVE  Inv'
<1> DEFINE c == thread[t].pc
           k == Dropped(thread[t])
<1>1. thread[t] \in Calls /\ Shape(t, thread[t]) /\ Good(thread[t]) /\ Typed
  BY Unpack
<1>2. /\ thread[t].at = "reading" /\ thread' = [thread EXCEPT ![t] = k]
      /\ UNCHANGED <<lists, state, csLock, csNetwork, connection, fault>> /\ opens' \in 0..MaxOpens
  BY <1>1 DEF Read, history, Typed
<1>3. t \in EventThreads /\ c \in Clients
  BY <1>1, <1>2 DEF Shape, Role
<1>4. ~Networks(thread[t])
  BY <1>2 DEF Networks
<1>5. \A d \in Clients, h \in Channels : Owns(t, thread[t], d, h) <=> c = d /\ thread[t].locked /\ h = 1
  BY <1>2 DEF Owns
<1>6. /\ k \in Calls /\ Shape(t, k) /\ Good(k) /\ ~Networks(k)
      /\ \A d \in Clients, h \in Channels : Owns(t, k, d, h) <=> c = d /\ thread[t].locked /\ h = 1
      /\ k.at \in {"unlocking", "idle"}
  BY <1>1, <1>3, DroppedIs
<1> HIDE DEF k, c
<1>7. k.at \notin Order
  BY <1>6 DEF Order
<1> QED BY <1>2, <1>4, <1>5, <1>6, <1>7, QuietStep

(***************************************************************************)
(* What a step leaves to the other threads                                 *)
(***************************************************************************)

\* A section has one owner.
LEMMA OneOwner ==
  ASSUME OwnInv, NEW t \in Threads, NEW u \in Threads, NEW c \in Clients, NEW ch \in Channels,
         Owns(t, thread[t], c, ch), Owns(u, thread[u], c, ch)
  PROVE  t = u
  BY DEF OwnInv

\* A client whose opening or closing is at its sections is held.
LEMMA OwnedHeld ==
  ASSUME Typed, SectionsOK, OwnInv, NEW t \in Threads, NEW c \in Clients, NEW ch \in Channels,
         Owns(t, thread[t], c, ch)
  PROVE  Held(c)
<1>1. csLock[c][ch].owner = t /\ csLock[c][ch].locks \in {0, 1}
  BY DEF OwnInv
<1>2. csLock[c][ch].locks # 0
  BY <1>1, Distinct DEF SectionsOK
<1> QED BY <1>1, <1>2 DEF Held

\* What a step of t may do to a client that other threads rely on.
LEMMA GoodStep ==
  ASSUME Typed, GoodInv, NEW t \in Threads, NEW k, thread' = [thread EXCEPT ![t] = k],
         Good(thread[t])',
         \A u \in Threads \ {t} :
           LET h == thread[u]  c == thread[u].pc IN
           /\ h.at \in {"opening", "adding", "linking"} =>
                flags'[c] = flags[c] /\ (~recyclePending[c] => ~recyclePending'[c])
           /\ h.at = "linking" =>
                me'[c] = me[c] /\ next'[c] = next[c] /\ next'["ActiveClients"] = next["ActiveClients"]
           /\ h.at \in Order => flags'[c] \cap {"CF_ACTIVE", "CF_CLOSED"} # {}
           /\ h.at = "clearing" => "CF_CLOSED" \in flags'[c]
           /\ Keeps(h) =>
                \/ /\ serial'[c] = serial[c] /\ connection'[c] = connection[c]
                   /\ "CF_ACTIVE" \in flags[c] => "CF_ACTIVE" \in flags'[c]
                \/ serial'[c] = serial[c] /\ "CF_ACTIVE" \notin flags[c]
                \/ serial[c] \in Nat /\ serial'[c] = serial[c] + 1 /\ h.at # "holding"
  PROVE  GoodInv'
<1> SUFFICES ASSUME NEW u \in Threads PROVE Good(thread[u])'
  BY DEF GoodInv
<1>1. CASE u = t
  BY <1>1
<1>2. CASE u # t
  <2> DEFINE h == thread[u]
             c == thread[u].pc
  <2>1. thread'[u] = h /\ h \in Calls /\ Good(h)
    BY <1>2 DEF Typed, GoodInv
  <2>2. h.serial \in Nat
    BY <2>1 DEF Calls
  <2> HIDE DEF h, c
  <2>3. OpensWell(thread[u])'
    BY <1>2, <2>1 DEF Good, OpensWell, h, c
  <2>4. ClosesWell(thread[u])'
    BY <1>2, <2>1 DEF Good, ClosesWell, h, c
  <2>5. LocksWell(thread[u])'
    <3>1. h.at = "holding" => Keeps(h)
      BY DEF Keeps
    <3>2. ASSUME Keeps(h)
          PROVE  /\ \/ h.serial < serial'[h.pc]
                    \/ /\ h.serial = serial'[h.pc] /\ connection'[h.pc] = h.connection
                       /\ "CF_ACTIVE" \in flags'[h.pc]
                 /\ h.at = "holding" => h.serial = serial'[h.pc]
      <4>1. /\ \/ h.serial < serial[h.pc]
               \/ /\ h.serial = serial[h.pc] /\ connection[h.pc] = h.connection
                  /\ "CF_ACTIVE" \in flags[h.pc]
            /\ h.at = "holding" => h.serial = serial[h.pc]
        BY <2>1, <3>2 DEF Good, LocksWell
      <4>2. \/ /\ serial'[h.pc] = serial[h.pc] /\ connection'[h.pc] = connection[h.pc]
               /\ "CF_ACTIVE" \in flags[h.pc] => "CF_ACTIVE" \in flags'[h.pc]
            \/ serial'[h.pc] = serial[h.pc] /\ "CF_ACTIVE" \notin flags[h.pc]
            \/ serial[h.pc] \in Nat /\ serial'[h.pc] = serial[h.pc] + 1 /\ h.at # "holding"
        BY <1>2, <3>2 DEF h
      <4> QED BY <2>2, <4>1, <4>2
    <3> QED BY <2>1, <3>1, <3>2 DEF LocksWell, Keeps
  <2> QED BY <2>3, <2>4, <2>5 DEF Good
<1> QED BY <1>1, <1>2

\* A step of t that does not begin to recycle what is being closed.
LEMMA ClearStep ==
  ASSUME thread \in [Threads -> Calls], ClearInv, NEW t \in Threads, NEW k,
         thread' = [thread EXCEPT ![t] = k],
         k.at \in Order => thread[t].at \in Order /\ k.pc = thread[t].pc,
         k.at = "clearing" =>
           \A u \in Threads \ {t} : thread[u].at \in Order => thread[u].pc # k.pc
  PROVE  ClearInv'
<1>1. thread'[t] = k /\ \A u \in Threads \ {t} : thread'[u] = thread[u]
  OBVIOUS
<1> SUFFICES ASSUME NEW u \in Threads, NEW v \in Threads,
                    thread'[u].at = "clearing", thread'[v].at \in Order
             PROVE  thread'[u].pc # thread'[v].pc
  BY DEF ClearInv
<1>2. CASE u = t
  <2>1. v # t
    BY <1>1, <1>2 DEF Order
  <2> QED BY <1>1, <1>2, <2>1
<1>3. CASE u # t /\ v = t
  BY <1>1, <1>3 DEF ClearInv
<1>4. CASE u # t /\ v # t
  BY <1>1, <1>4 DEF ClearInv
<1> QED BY <1>2, <1>3, <1>4

\* Who is being linked in, after a step that does not change it.
LEMMA LinkingSame ==
  ASSUME thread \in [Threads -> Calls], NEW t \in Threads, NEW k, thread' = [thread EXCEPT ![t] = k],
         k.at = "linking" <=> thread[t].at = "linking", k.at = "linking" => k.pc = thread[t].pc
  PROVE  \A c \in Clients : Linking(c)' <=> Linking(c)
<1>1. thread'[t] = k /\ \A u \in Threads \ {t} : thread'[u] = thread[u]
  OBVIOUS
<1> QED BY <1>1 DEF Linking, Threads

\* Who is being opened, after a step that does not end it.
LEMMA FreshSame ==
  ASSUME thread \in [Threads -> Calls], NEW t \in Threads, NEW k, thread' = [thread EXCEPT ![t] = k],
         \A c \in Clients : Fresh(thread[t], c) => Fresh(k, c)
  PROVE  \A u \in Threads, c \in Clients : Fresh(thread[u], c) => Fresh(thread'[u], c)
<1>1. thread'[t] = k /\ \A u \in Threads \ {t} : thread'[u] = thread[u]
  OBVIOUS
<1> QED BY <1>1

\* Each call has its shape after a step of t.
LEMMA ShapeStep ==
  ASSUME thread \in [Threads -> Calls], ShapeInv, NEW t \in Threads, NEW k, thread' = [thread EXCEPT ![t] = k],
         Shape(t, k)
  PROVE  ShapeInv'
<1>1. thread'[t] = k /\ \A u \in Threads \ {t} : thread'[u] = thread[u]
  OBVIOUS
<1> QED BY <1>1 DEF ShapeInv

\* The places of the lists, when neither they nor who is in them change.
LEMMA ListSame ==
  ASSUME ListInv, UNCHANGED lists, \A l \in Lists : In(l)' = In(l)
  PROVE  ListInv'
  BY DEF ListInv, lists

\* A client that is being opened, as the others see it.
LEMMA OpenedIs ==
  ASSUME Working, NEW u \in Threads, thread[u].at \in {"opening", "adding", "linking"}
  PROVE  /\ thread[u].pc \in Clients /\ flags[thread[u].pc] \in {{}, {"CF_ACTIVE"}}
         /\ ~recyclePending[thread[u].pc]
         /\ \A ch \in Channels : Owns(u, thread[u], thread[u].pc, ch)
         /\ thread[u].at # "linking" => flags[thread[u].pc] = {}
<1>1. thread[u].pc \in Clients
  BY DEF Working, ShapeInv, Shape, Role
<1>2. /\ flags[thread[u].pc] \in {{}, {"CF_ACTIVE"}} /\ ~recyclePending[thread[u].pc]
      /\ thread[u].at # "linking" => flags[thread[u].pc] = {}
  BY DEF Working, GoodInv, Good, OpensWell
<1>3. \A ch \in Channels : Owns(u, thread[u], thread[u].pc, ch)
  BY DEF Owns
<1> QED BY <1>1, <1>2, <1>3

(***************************************************************************)
(* Recycling                                                               *)
(***************************************************************************)

\* The second look, with csNetwork: Recheck keeps the invariant.
LEMMA RecheckKeeps ==
  ASSUME Inv, ~fault, NEW t \in Threads, Recheck(t)
  PROVE  Inv'
<1> DEFINE c == thread[t].pc
<1>1. thread[t] \in Calls /\ Shape(t, thread[t]) /\ Typed /\ SectionsOK /\ FlagInv /\ Working
      /\ thread \in [Threads -> Calls]
  BY Unpack
<1>2. /\ thread[t].at = "recheck" /\ Free(csNetwork, t)
      /\ UNCHANGED <<lists, flags, socket, serial, csLock, connection, fault>> /\ opens' \in 0..MaxOpens
  BY <1>1 DEF Recheck, history, Typed
<1>3. c \in Clients /\ thread[t].todo \in {Only(0), Only(1)} /\ thread[t].ok \in Onwards
      /\ (t \in EventThreads => thread[t].ok = "idle") /\ (thread[t].ok # "idle" => t \in Closers)
      /\ (thread[t].locked => t \in EventThreads)
  BY <1>1, <1>2 DEF Shape, Role, Unlocking
<1>4. CASE ~Due(c)
  <2> DEFINE k == Unlocked(thread[t])
  <2>1. thread' = [thread EXCEPT ![t] = k] /\ UNCHANGED <<csNetwork, recyclePending>>
    BY <1>4 DEF Recheck
  <2>2. UNCHANGED <<lists, state, csLock, csNetwork, connection, fault>>
    BY <1>2, <2>1 DEF state
  <2>3. /\ k \in Calls /\ Shape(t, k) /\ Good(k) /\ (Networks(k) <=> thread[t].ok # "idle")
        /\ \A d \in Clients, ch \in Channels : Owns(t, k, d, ch) <=> Owns(t, thread[t], d, ch)
        /\ k.at \in {"unlocking", "idle", "refused", "finish", "leave"}
    BY <1>1, <1>2, UnlockedIs
  <2> HIDE DEF k
  <2>4. (Networks(k) <=> Networks(thread[t])) /\ k.at \notin Order
    BY <1>2, <2>3 DEF Networks, Order
  <2> QED BY <1>2, <1>4, <2>1, <2>2, <2>3, <2>4, QuietStep
<1>5. CASE Due(c)
  <2> DEFINE k == At(thread[t], "clearing")
             s == Entered(csNetwork, t)
  <2>1. /\ thread' = [thread EXCEPT ![t] = k] /\ csNetwork' = s
        /\ recyclePending' = [recyclePending EXCEPT ![c] = FALSE]
    BY <1>5 DEF Recheck, GoTo
  <2>2. /\ k \in Calls /\ k.at = "clearing" /\ k.todo = thread[t].todo /\ k.ok = thread[t].ok
        /\ k.pc = c /\ k.locked = thread[t].locked
    BY <1>1, AtIs DEF Places
  <2> HIDE DEF k
  <2>3. /\ recyclePending[c] /\ ~Held(c) /\ "CF_CLOSED" \in flags[c]
        /\ recyclePending' \in [Clients -> BOOLEAN] /\ ~recyclePending'[c]
        /\ \A d \in Clients \ {c} : recyclePending'[d] = recyclePending[d]
    BY <1>1, <1>3, <1>5, <2>1, ZenonT(60) DEF Due, FlagInv, Typed
  <2>4. Shape(t, k)
    BY <1>3, <2>2 DEF Shape, Role, Locking, Unlocking, Onwards
  <2>5. s \in Sections /\ s = [owner |-> t, locks |-> Depth(k)] /\ csNetwork.owner \in {None, t}
        /\ csNetwork \in Sections
    <3>1. csNetwork \in Sections /\ csNetwork.owner \in {None, t}
      BY <1>1, <1>2 DEF Typed, Free
    <3>2. CASE thread[t].ok # "idle"
      <4>1. Networks(thread[t]) /\ Depth(thread[t]) = 1 /\ Depth(k) = 2
        BY <1>2, <2>2, <3>2 DEF Networks, Depth
      <4>2. csNetwork = [owner |-> t, locks |-> 1]
        BY <1>1, <4>1 DEF Working, NetInv
      <4> QED BY <3>1, <4>1, <4>2 DEF Entered, Sections
    <3>3. CASE thread[t].ok = "idle"
      <4>1. ~Networks(thread[t]) /\ thread[t].at # "callback" /\ Depth(k) = 1
        BY <1>2, <2>2, <3>3 DEF Networks, Depth
      <4>2. csNetwork.owner = None
        BY <1>1, <3>1, <4>1 DEF Working, NetInv
      <4>3. csNetwork.locks = 0
        BY <1>1, <4>2 DEF SectionsOK
      <4> QED BY <3>1, <4>1, <4>2, <4>3 DEF Entered, Sections
    <3> QED BY <3>2, <3>3
  <2>6. /\ Networks(k) /\ \A d \in Clients, ch \in Channels : ~Owns(t, k, d, ch) /\ ~Owns(t, thread[t], d, ch)
    BY <1>2, <2>2 DEF Networks, Owns
  <2>7. SectionsOK' /\ OwnInv' /\ NetInv' /\ csNetwork' \in Sections /\ csLock' \in [Clients -> [Channels -> Sections]]
    <3>1. Depth(k) \in {1, 2}
      BY DEF Depth
    <3>2. s.owner = t /\ s.locks # 0
      BY <2>5, <3>1
    <3>3. OwnInv /\ NetInv /\ Typed /\ SectionsOK /\ csLock' = csLock
      BY <1>1, <1>2 DEF Working
    <3>4. \A d \in Clients, ch \in Channels : Owns(t, k, d, ch) <=> Owns(t, thread[t], d, ch)
      BY <2>6
    <3>5. /\ thread' = [thread EXCEPT ![t] = k] /\ csNetwork' = s /\ k \in Calls /\ s \in Sections
          /\ csNetwork.owner \in {None, t} /\ Networks(k) /\ s = [owner |-> t, locks |-> Depth(k)]
      BY <2>1, <2>2, <2>5, <2>6
    <3> HIDE DEF s
    <3> QED BY <3>2, <3>3, <3>4, <3>5, NetworkStep
  <2>8. Typed'
    BY <1>1, <1>2, <2>1, <2>2, <2>3, <2>7 DEF Typed, LinksType, lists
  <2>9. FlagInv'
    <3>1. \A d \in Clients : recyclePending'[d] => recyclePending[d]
      BY <2>3
    <3> QED BY <1>1, <1>2, <3>1 DEF FlagInv
  <2>10. ShapeInv'
    BY <1>1, <2>1, <2>4, ShapeStep DEF Working
  <2>11. thread'[t] = k /\ \A u \in Threads \ {t} : thread'[u] = thread[u]
    BY <1>1, <2>1
  <2>12. GoodInv'
    <3>1. Good(thread[t])'
      BY <1>2, <2>2, <2>3, <2>11 DEF Good, OpensWell, ClosesWell, LocksWell, Keeps, Order
    <3>2. ASSUME NEW u \in Threads \ {t}
          PROVE LET h == thread[u]  d == thread[u].pc IN
           /\ h.at \in {"opening", "adding", "linking"} =>
                flags'[d] = flags[d] /\ (~recyclePending[d] => ~recyclePending'[d])
           /\ h.at = "linking" =>
                me'[d] = me[d] /\ next'[d] = next[d] /\ next'["ActiveClients"] = next["ActiveClients"]
           /\ h.at \in Order => flags'[d] \cap {"CF_ACTIVE", "CF_CLOSED"} # {}
           /\ h.at = "clearing" => "CF_CLOSED" \in flags'[d]
           /\ Keeps(h) => /\ serial'[d] = serial[d] /\ connection'[d] = connection[d]
                          /\ "CF_ACTIVE" \in flags[d] => "CF_ACTIVE" \in flags'[d]
      <4>1. Good(thread[u])
        BY <1>1 DEF Working, GoodInv
      <4>2. thread[u].at \in {"opening", "adding", "linking"} =>
              (~recyclePending[thread[u].pc] => ~recyclePending'[thread[u].pc])
        BY <1>1, <2>3, OpenedIs
      <4> QED BY <1>2, <4>1, <4>2 DEF Good, ClosesWell, lists
    <3> QED BY <1>1, <2>1, <3>1, <3>2, GoodStep DEF Working
  <2>13. ClearInv'
    <3>1. ASSUME NEW u \in Threads, thread[u].at \in Order PROVE thread[u].pc # c
      <4>1. thread[u].pc = c => Owns(u, thread[u], c, 0)
        BY <3>1 DEF Owns, Order
      <4> QED BY <1>1, <1>3, <2>3, <4>1, OwnedHeld DEF Working, Channels
    <3>2. k.at \notin Order
      BY <2>2 DEF Order
    <3> QED BY <1>1, <2>1, <2>2, <3>1, <3>2, ClearStep DEF Working
  <2>14. \A d \in Clients : Linking(d)' <=> Linking(d)
    BY <1>1, <1>2, <2>1, <2>2, LinkingSame
  <2>15. ListInv'
    <3>1. \A l \in Lists : In(l)' = In(l)
      BY <1>2, <2>14 DEF In
    <3> QED BY <1>1, <1>2, <3>1, ListSame DEF Working
  <2>16. KnownInv'
    <3>1. \A u \in Threads, d \in Clients : Fresh(thread[u], d) => Fresh(thread'[u], d)
      <4>1. \A d \in Clients : ~Fresh(thread[t], d)
        BY <1>2 DEF Fresh
      <4> QED BY <1>1, <2>1, <4>1, FreshSame
    <3> QED BY <1>1, <1>2, <3>1 DEF Working, KnownInv, Threads
  <2>17. PendingHasRecycler'
    <3> SUFFICES ASSUME NEW d \in Clients, recyclePending'[d]
                 PROVE  Held(d)' \/ \E u \in Threads : thread'[u].pc = d /\ thread'[u].at \in {"unlocked", "recheck"}
      BY DEF PendingHasRecycler
    <3>1. d # c /\ recyclePending[d] /\ (Held(d)' <=> Held(d))
      BY <1>2, <2>3 DEF Held
    <3>2. CASE ~Held(d)
      <4>1. PICK u \in Threads : thread[u].pc = d /\ thread[u].at \in {"unlocked", "recheck"}
        BY <1>1, <3>1, <3>2 DEF Working, PendingHasRecycler
      <4> QED BY <2>11, <3>1, <4>1
    <3> QED BY <3>1, <3>2
  <2> QED BY <1>2, <2>7, <2>8, <2>9, <2>10, <2>12, <2>13, <2>15, <2>16, <2>17 DEF Inv, Working
<1> QED BY <1>4, <1>5

\* Terminate keeps the invariant: a client that is held is left to be recycled by its holder.
LEMMA TerminateKeeps ==
  ASSUME Inv, ~fault, NEW t \in Threads, Terminate(t)
  PROVE  Inv'
<1> DEFINE c == thread[t].pc
           closed == "CF_CLOSED" \in flags[c]
<1>1. thread[t] \in Calls /\ Shape(t, thread[t]) /\ Typed /\ SectionsOK /\ FlagInv /\ Working
      /\ thread \in [Threads -> Calls]
  BY Unpack
<1>2. /\ thread[t].at = "terminate"
      /\ UNCHANGED <<lists, flags, serial, csLock, connection, fault>> /\ opens' \in 0..MaxOpens
      /\ socket' = IF closed THEN [socket EXCEPT ![c] = FALSE] ELSE socket
  BY <1>1 DEF Terminate, history, Typed
<1>3. c \in Clients /\ t \in Closers \cup EventThreads /\ (thread[t].locked => t \in EventThreads)
      /\ (t \in Closers => t \notin EventThreads)
  BY <1>1, <1>2, Distinct DEF Shape, Role
<1>4. csNetwork = [owner |-> t, locks |-> 1]
  <2>1. Networks(thread[t]) /\ Depth(thread[t]) = 1
    BY <1>2 DEF Networks, Depth
  <2> QED BY <1>1, <2>1 DEF Working, NetInv
<1>5. /\ socket' \in [Clients -> BOOLEAN] /\ \A d \in Clients : socket'[d] => socket[d]
  BY <1>1, <1>2, <1>3 DEF Typed
\* The call it goes on with, and what is done to the sections and to recyclePending.
<1>6. \E k \in Calls, s \in Sections :
        /\ thread' = [thread EXCEPT ![t] = k] /\ csNetwork' = s
        /\ Shape(t, k) /\ k.pc = c /\ k.at \in {"clearing", "leave", "unlocking"}
        /\ Networks(k) /\ s = [owner |-> t, locks |-> Depth(k)]
        /\ \A d \in Clients, ch \in Channels : Owns(t, k, d, ch) <=> Owns(t, thread[t], d, ch)
        /\ k.at = "clearing" => closed /\ ~Held(c)
        /\ recyclePending' \in [Clients -> BOOLEAN]
        /\ \A d \in Clients : recyclePending'[d] =>
             recyclePending[d] \/ (d = c /\ closed /\ Held(c))
  <2>1. CASE closed /\ ~Held(c)
    <3> DEFINE k == [thread[t] EXCEPT !.at = "clearing", !.todo = Nil, !.ok = "leave"]
               s == Entered(csNetwork, t)
    <3>1. thread' = [thread EXCEPT ![t] = k] /\ csNetwork' = s /\ recyclePending' = recyclePending
      BY <1>1, <2>1 DEF Terminate, Nil
    <3>2. Nil \in Seq(Channels)
      BY WordsAre
    <3>3. /\ k \in Calls /\ k.at = "clearing" /\ k.todo = Nil /\ k.ok = "leave" /\ k.pc = c
          /\ k.locked = thread[t].locked
      BY <1>1, <3>2 DEF Calls, Places
    <3> HIDE DEF k
    <3>4. \A d \in Clients, ch \in Channels : ~Owns(t, thread[t], d, ch)
      <4> TAKE d \in Clients, ch \in Channels
      <4>1. Owns(t, thread[t], d, ch) => d = c
        BY DEF Owns
      <4> QED BY <1>1, <2>1, <4>1, OwnedHeld DEF Working
    <3>5. ~thread[t].locked /\ t \notin Closers
      <4>1. thread[t].locked \/ t \in Closers => Owns(t, thread[t], c, 1)
        BY <1>2 DEF Owns
      <4> QED BY <1>3, <3>4, <4>1 DEF Channels
    <3>6. Shape(t, k)
      BY <1>3, <3>3, <3>5 DEF Shape, Role, Locking, Unlocking, Onwards
    <3>7. Networks(k) /\ Depth(k) = 2 /\ \A d \in Clients, ch \in Channels : ~Owns(t, k, d, ch)
      BY <3>3 DEF Networks, Depth, Owns
    <3>8. s = [owner |-> t, locks |-> 2] /\ s \in Sections
      BY <1>4 DEF Entered, Sections
    <3>9. recyclePending' \in [Clients -> BOOLEAN]
      BY <1>1, <3>1 DEF Typed
    <3> HIDE DEF s
    <3> QED BY <2>1, <3>1, <3>3, <3>4, <3>6, <3>7, <3>8, <3>9
  <2>2. CASE ~(closed /\ ~Held(c))
    <3> DEFINE k == Terminated(thread[t], t)
    <3>1. thread' = [thread EXCEPT ![t] = k] /\ csNetwork' = csNetwork
          /\ recyclePending' = IF closed THEN [recyclePending EXCEPT ![c] = TRUE] ELSE recyclePending
      BY <2>2 DEF Terminate
    <3>2. /\ k \in Calls /\ Shape(t, k) /\ k.at \in {"leave", "unlocking"} /\ k.pc = c /\ Networks(k) /\ Depth(k) = 1
          /\ \A d \in Clients, ch \in Channels : Owns(t, k, d, ch) <=> Owns(t, thread[t], d, ch)
      <4>1. CASE t \in EventThreads
        <5>1. k \in Calls /\ k.at = "leave" /\ k.pc = c /\ k.locked = thread[t].locked
          BY <1>1, <4>1, AtIs DEF Terminated, Places
        <5> HIDE DEF k
        <5>2. Shape(t, k)
          BY <1>3, <4>1, <5>1 DEF Shape, Role, Locking, Unlocking
        <5>3. Networks(k) /\ Depth(k) = 1
          BY <5>1 DEF Networks, Depth
        <5>4. \A d \in Clients, ch \in Channels : Owns(t, k, d, ch) <=> Owns(t, thread[t], d, ch)
          BY <1>2, <1>3, <4>1, <5>1 DEF Owns
        <5> QED BY <5>1, <5>2, <5>3, <5>4
      <4>2. CASE t \notin EventThreads
        <5>0. Both \in Seq(Channels) /\ "leave" \in Places
          BY WordsAre DEF Places
        <5>1. k = ToUnlock(thread[t], Both, "leave")
          BY <4>2 DEF Terminated, Both
        <5>2. /\ k \in Calls /\ k.at = "unlocking" /\ k.todo = Both /\ k.ok = "leave" /\ k.pc = c
              /\ k.locked = thread[t].locked
          BY <1>1, <5>0, <5>1, ToUnlockIs
        <5> HIDE DEF k
        <5>3. Shape(t, k)
          BY <1>3, <4>2, <5>2 DEF Shape, Role, Locking, Unlocking, Onwards
        <5>4. Networks(k) /\ Depth(k) = 1
          BY <5>2 DEF Networks, Depth
        <5>5. \A d \in Clients, ch \in Channels : Owns(t, k, d, ch) <=> Owns(t, thread[t], d, ch)
          BY <1>2, <1>3, <4>2, <5>2 DEF Owns
        <5> QED BY <5>2, <5>3, <5>4, <5>5
      <4> QED BY <4>1, <4>2
    <3> HIDE DEF k
    <3>3. csNetwork \in Sections
      BY <1>1 DEF Typed
    <3>4. recyclePending' \in [Clients -> BOOLEAN]
      BY <1>1, <1>3, <3>1 DEF Typed
    <3>5. \A d \in Clients : recyclePending'[d] => recyclePending[d] \/ (d = c /\ closed /\ Held(c))
      BY <1>1, <1>3, <2>2, <3>1 DEF Typed
    <3> QED BY <1>4, <3>1, <3>2, <3>3, <3>4, <3>5
  <2> QED BY <2>1, <2>2
<1>7. PICK k \in Calls, s \in Sections :
        /\ thread' = [thread EXCEPT ![t] = k] /\ csNetwork' = s
        /\ Shape(t, k) /\ k.pc = c /\ k.at \in {"clearing", "leave", "unlocking"}
        /\ Networks(k) /\ s = [owner |-> t, locks |-> Depth(k)]
        /\ \A d \in Clients, ch \in Channels : Owns(t, k, d, ch) <=> Owns(t, thread[t], d, ch)
        /\ k.at = "clearing" => closed /\ ~Held(c)
        /\ recyclePending' \in [Clients -> BOOLEAN]
        /\ \A d \in Clients : recyclePending'[d] =>
             recyclePending[d] \/ (d = c /\ closed /\ Held(c))
  BY <1>6
<1>8. SectionsOK' /\ OwnInv' /\ NetInv' /\ csNetwork' \in Sections /\ csLock' \in [Clients -> [Channels -> Sections]]
  <2>1. Depth(k) \in {1, 2}
    BY DEF Depth
  <2>2. s.owner = t /\ s.locks # 0
    BY <1>7, <2>1
  <2>3. OwnInv /\ NetInv /\ Typed /\ SectionsOK /\ csLock' = csLock /\ csNetwork.owner \in {None, t}
    BY <1>1, <1>2, <1>4 DEF Working
  <2> QED BY <1>7, <2>2, <2>3, NetworkStep
<1>9. Typed'
  BY <1>1, <1>2, <1>5, <1>7, <1>8 DEF Typed, LinksType, lists
<1>10. FlagInv'
  <2>1. ASSUME NEW d \in Clients PROVE recyclePending'[d] => "CF_CLOSED" \in flags'[d]
    BY <1>1, <1>2, <1>7 DEF FlagInv
  <2> QED BY <1>1, <1>2, <1>5, <2>1 DEF FlagInv
<1>11. ShapeInv'
  BY <1>1, <1>7, ShapeStep DEF Working
<1>12. thread'[t] = k /\ \A u \in Threads \ {t} : thread'[u] = thread[u]
  BY <1>1, <1>7
<1>13. GoodInv'
  <2>1. Good(thread[t])'
    BY <1>2, <1>7, <1>12 DEF Good, OpensWell, ClosesWell, LocksWell, Keeps, Order
  <2>2. ASSUME NEW u \in Threads \ {t}
        PROVE LET h == thread[u]  d == thread[u].pc IN
         /\ h.at \in {"opening", "adding", "linking"} =>
              flags'[d] = flags[d] /\ (~recyclePending[d] => ~recyclePending'[d])
         /\ h.at = "linking" =>
              me'[d] = me[d] /\ next'[d] = next[d] /\ next'["ActiveClients"] = next["ActiveClients"]
         /\ h.at \in Order => flags'[d] \cap {"CF_ACTIVE", "CF_CLOSED"} # {}
         /\ h.at = "clearing" => "CF_CLOSED" \in flags'[d]
         /\ Keeps(h) => /\ serial'[d] = serial[d] /\ connection'[d] = connection[d]
                        /\ "CF_ACTIVE" \in flags[d] => "CF_ACTIVE" \in flags'[d]
    <3>1. Good(thread[u])
      BY <1>1 DEF Working, GoodInv
    <3>2. ASSUME thread[u].at \in {"opening", "adding", "linking"}
          PROVE  ~recyclePending'[thread[u].pc]
      BY <1>1, <1>7, <3>2, OpenedIs
    <3> QED BY <1>2, <3>1, <3>2 DEF Good, ClosesWell, lists
  <2> QED BY <1>1, <1>7, <2>1, <2>2, GoodStep DEF Working
<1>14. ClearInv'
  <2>1. ASSUME k.at = "clearing", NEW u \in Threads, thread[u].at \in Order PROVE thread[u].pc # c
    <3>1. thread[u].pc = c => Owns(u, thread[u], c, 0)
      BY <2>1 DEF Owns, Order
    <3> QED BY <1>1, <1>3, <1>7, <2>1, <3>1, OwnedHeld DEF Working, Channels
  <2>2. k.at \notin Order
    BY <1>7 DEF Order
  <2> QED BY <1>1, <1>7, <2>1, <2>2, ClearStep DEF Working
<1>15. \A d \in Clients : Linking(d)' <=> Linking(d)
  BY <1>1, <1>2, <1>7, LinkingSame
<1>16. ListInv'
  <2>1. \A l \in Lists : In(l)' = In(l)
    BY <1>2, <1>15 DEF In
  <2> QED BY <1>1, <1>2, <2>1, ListSame DEF Working
<1>17. KnownInv'
  <2>1. \A u \in Threads, d \in Clients : Fresh(thread[u], d) => Fresh(thread'[u], d)
    <3>1. \A d \in Clients : ~Fresh(thread[t], d)
      BY <1>2 DEF Fresh
    <3> QED BY <1>1, <1>7, <3>1, FreshSame
  <2> QED BY <1>1, <1>2, <1>5, <2>1 DEF Working, KnownInv, Threads
<1>18. PendingHasRecycler'
  <2>1. \A d \in Clients : Held(d)' <=> Held(d)
    BY <1>2 DEF Held
  <2> QED BY <1>1, <1>2, <1>7, <2>1, PendingStep DEF Working
<1> QED BY <1>2, <1>8, <1>9, <1>10, <1>11, <1>13, <1>14, <1>16, <1>17, <1>18 DEF Inv, Working

\* Each list has its flag.
LEMMA FlagIs ==
  /\ Flag["AvailableClients"] = "CF_AVAILABLE" /\ Flag["ActiveClients"] = "CF_ACTIVE"
  /\ Flag["ClosedClients"] = "CF_CLOSED"
  /\ \A l \in Lists : Flag[l] \in CF_STATEFLAGS
  /\ \A l, k \in Lists : Flag[l] = Flag[k] => l = k
<1>1. /\ Flag["AvailableClients"] = "CF_AVAILABLE" /\ Flag["ActiveClients"] = "CF_ACTIVE"
      /\ Flag["ClosedClients"] = "CF_CLOSED"
  BY DEF Flag
<1> QED BY <1>1 DEF Lists, CF_STATEFLAGS

\* A client that has a state flag and is not being linked in is in one list.
LEMMA PlaceOf ==
  ASSUME Typed, FlagInv, NEW c \in Clients, NEW l \in Lists, Flag[l] \in flags[c], ~Linking(c)
  PROVE  c \in In(l) /\ \A k \in Lists \ {l} : c \notin In(k)
  BY FlagIs DEF In, FlagInv

\* The lists after a client has moved to list l, which its flag says.
LEMMA MoveStep ==
  ASSUME Typed, FlagInv, ListInv, NEW c \in Clients, NEW l \in Lists, NEW k \in Lists,
         Flag[k] \in flags[c], ~Linking(c), MoveTo(l, c),
         flags'[c] \cap CF_STATEFLAGS = {Flag[l]},
         \A d \in Clients \ {c} : flags'[d] = flags[d],
         \A d \in Clients : Linking(d)' <=> Linking(d)
  PROVE  /\ LinksType(next', me') /\ ListInv'
         /\ \A h \in Lists \ {k, l} : next'[h] = next[h]
         /\ \A d \in Clients : Linking(d) => next'[d] = next[d] /\ me'[d] = me[d]
<1> DEFINE P == [h \in Lists |-> In(h)]
<1>1. LinksType(next, me) /\ InPlace(next, me, P)
  BY DEF Typed, ListInv
<1>2. c \in P[k] /\ \A h \in Lists : P[h] = In(h)
  BY PlaceOf
<1>3. /\ LinksType(next', me')
      /\ InPlace(next', me', [h \in Lists |-> IF h = l THEN (P[h] \ {c}) \cup {c} ELSE P[h] \ {c}])
      /\ \A h \in Lists \ {k, l} : next'[h] = next[h]
      /\ \A x \in Clients : (\A h \in Lists : x \notin P[h]) => next'[x] = next[x] /\ me'[x] = me[x]
  <2> HIDE DEF P
  <2> QED BY <1>1, <1>2, MoveKeeps
<1>4. ASSUME NEW h \in Lists PROVE In(h)' = (IF h = l THEN (P[h] \ {c}) \cup {c} ELSE P[h] \ {c})
  <2>1. ASSUME NEW d \in Clients \ {c} PROVE d \in In(h)' <=> d \in In(h)
    BY DEF In
  <2>2. c \in In(h)' <=> h = l
    BY FlagIs DEF In
  <2>3. In(h) \subseteq Clients /\ In(h)' \subseteq Clients
    BY DEF In
  <2> QED BY <2>1, <2>2, <2>3
<1>5. ListInv'
  <2>1. [h \in Lists |-> In(h)]' = [h \in Lists |-> IF h = l THEN (P[h] \ {c}) \cup {c} ELSE P[h] \ {c}]
    <3> HIDE DEF P
    <3> QED BY <1>4
  <2> HIDE DEF P
  <2> QED BY <1>3, <2>1 DEF ListInv
<1>6. \A d \in Clients : Linking(d) => \A h \in Lists : d \notin P[h]
  BY DEF In
<1> HIDE DEF P
<1> QED BY <1>3, <1>5, <1>6

\* Who belongs in a list, after a step that changes no state flag.
LEMMA InSame ==
  ASSUME NEW l \in Lists,
         \A c \in Clients : flags'[c] \cap CF_STATEFLAGS = flags[c] \cap CF_STATEFLAGS,
         \A c \in Clients : Linking(c)' <=> Linking(c)
  PROVE  In(l)' = In(l)
  BY FlagIs DEF In

\* ClearClient, and the move to the available clients: Recycle keeps the invariant.
LEMMA RecycleKeeps ==
  ASSUME Inv, ~fault, NEW t \in Threads, Recycle(t)
  PROVE  Inv'
<1> DEFINE c == thread[t].pc
           k == Unlocked(thread[t])
           s == Left(csNetwork)
<1>1. thread[t] \in Calls /\ Shape(t, thread[t]) /\ Good(thread[t]) /\ Typed /\ SectionsOK /\ FlagInv /\ Working
      /\ thread \in [Threads -> Calls]
  BY Unpack
<1>2. /\ thread[t].at = "clearing" /\ csNetwork' = s /\ thread' = [thread EXCEPT ![t] = k]
      /\ MoveTo("AvailableClients", c) /\ flags' = [flags EXCEPT ![c] = {"CF_AVAILABLE"}]
      /\ socket' = [socket EXCEPT ![c] = FALSE] /\ recyclePending' = [recyclePending EXCEPT ![c] = FALSE]
      /\ UNCHANGED <<serial, csLock, connection, fault>> /\ opens' \in 0..MaxOpens
  BY <1>1 DEF Recycle, RecycleClient, history, Typed
<1>3. c \in Clients /\ "CF_CLOSED" \in flags[c] /\ thread[t].ok \in Onwards
  BY <1>1, <1>2 DEF Shape, Role, Unlocking, Good, ClosesWell
<1>4. /\ k \in Calls /\ Shape(t, k) /\ Good(k) /\ (Networks(k) <=> thread[t].ok # "idle")
      /\ \A d \in Clients, ch \in Channels : Owns(t, k, d, ch) <=> Owns(t, thread[t], d, ch)
      /\ k.at \in {"unlocking", "idle", "refused", "finish", "leave"}
  BY <1>1, <1>2, UnlockedIs
<1>5. Networks(thread[t]) /\ csNetwork = [owner |-> t, locks |-> Depth(thread[t])]
  <2>1. Networks(thread[t])
    BY <1>2 DEF Networks
  <2> QED BY <1>1, <2>1 DEF Working, NetInv
<1> HIDE DEF k
<1>6. /\ s \in Sections /\ Depth(k) = 1
      /\ thread[t].ok # "idle" => s.owner = t /\ s.locks = 1 /\ s = [owner |-> t, locks |-> Depth(k)]
      /\ thread[t].ok = "idle" => s.owner = None /\ s.locks = 0
  <2>1. Depth(k) = 1
    BY <1>4 DEF Depth
  <2>2. CASE thread[t].ok # "idle"
    <3>1. Depth(thread[t]) = 2
      BY <1>2, <2>2 DEF Depth
    <3>2. s = [owner |-> t, locks |-> 1]
      BY <1>5, <3>1 DEF Left
    <3> QED BY <2>1, <2>2, <3>2 DEF Sections
  <2>3. CASE thread[t].ok = "idle"
    <3>1. Depth(thread[t]) = 1
      BY <1>2, <2>3 DEF Depth
    <3>2. s = Blank
      BY <1>5, <3>1 DEF Left
    <3> QED BY <2>1, <2>3, <3>2 DEF Sections, Blank
  <2> QED BY <2>2, <2>3
<1>7. SectionsOK' /\ OwnInv' /\ NetInv' /\ csNetwork' \in Sections /\ csLock' \in [Clients -> [Channels -> Sections]]
  <2>1. OwnInv /\ NetInv /\ Typed /\ SectionsOK /\ csLock' = csLock /\ csNetwork.owner \in {None, t}
    BY <1>1, <1>2, <1>5 DEF Working
  <2>2. /\ (s.owner = None /\ s.locks = 0) \/ (s.owner = t /\ s.locks # 0)
        /\ Networks(k) => s = [owner |-> t, locks |-> Depth(k)]
        /\ s.owner = t => Networks(k)
    BY <1>4, <1>6, Distinct
  <2>3. thread' = [thread EXCEPT ![t] = k] /\ csNetwork' = s /\ k \in Calls /\ s \in Sections
    BY <1>2, <1>4, <1>6
  <2> HIDE DEF s
  <2> QED BY <1>4, <2>1, <2>2, <2>3, NetworkStep
<1> HIDE DEF s, c
<1>8. thread'[t] = k /\ \A u \in Threads \ {t} : thread'[u] = thread[u]
  BY <1>1, <1>2
<1>9. /\ flags'[c] = {"CF_AVAILABLE"} /\ ~socket'[c] /\ ~recyclePending'[c]
      /\ \A d \in Clients \ {c} : flags'[d] = flags[d] /\ socket'[d] = socket[d] /\ recyclePending'[d] = recyclePending[d]
      /\ flags' \in [Clients -> SUBSET (CF_STATEFLAGS \cup {"CF_CLOSING"})]
      /\ socket' \in [Clients -> BOOLEAN] /\ recyclePending' \in [Clients -> BOOLEAN]
  BY <1>1, <1>2, <1>3 DEF Typed, CF_STATEFLAGS
<1>10. "CF_ACTIVE" \notin flags[c] /\ ~Linking(c)
  <2>1. "CF_ACTIVE" \notin flags[c]
    BY <1>1, <1>3 DEF FlagInv, CF_STATEFLAGS
  <2>2. ASSUME Linking(c) PROVE FALSE
    <3>1. PICK u \in Openers : thread[u].at = "linking" /\ thread[u].pc = c
      BY <2>2 DEF Linking
    <3>2. u \in Threads
      BY DEF Threads
    <3>3. flags[c] \in {{}, {"CF_ACTIVE"}}
      BY <1>1, <3>1, <3>2, OpenedIs
    <3> QED BY <1>3, <3>3
  <2> QED BY <2>1, <2>2
<1>11. \A d \in Clients : Linking(d)' <=> Linking(d)
  BY <1>1, <1>2, <1>4, LinkingSame
<1>12. /\ LinksType(next', me') /\ ListInv' /\ next'["ActiveClients"] = next["ActiveClients"]
       /\ \A d \in Clients : Linking(d) => next'[d] = next[d] /\ me'[d] = me[d]
  <2>1. flags'[c] \cap CF_STATEFLAGS = {Flag["AvailableClients"]} /\ Flag["ClosedClients"] \in flags[c]
    BY <1>3, <1>9, FlagIs DEF CF_STATEFLAGS
  <2>2. "AvailableClients" \in Lists /\ "ClosedClients" \in Lists
        /\ "ActiveClients" \in Lists \ {"ClosedClients", "AvailableClients"}
    BY DEF Lists
  <2>3. /\ LinksType(next', me') /\ ListInv'
        /\ \A h \in Lists \ {"ClosedClients", "AvailableClients"} : next'[h] = next[h]
        /\ \A d \in Clients : Linking(d) => next'[d] = next[d] /\ me'[d] = me[d]
    BY <1>1, <1>2, <1>3, <1>9, <1>10, <1>11, <2>1, <2>2, MoveStep DEF Working
  <2> QED BY <2>2, <2>3
<1>13. Typed'
  BY <1>1, <1>2, <1>4, <1>7, <1>9, <1>12 DEF Typed
<1>14. FlagInv'
  <2> SUFFICES ASSUME NEW d \in Clients
               PROVE  /\ \A f, g \in flags'[d] \cap CF_STATEFLAGS : f = g
                      /\ "CF_CLOSING" \in flags'[d] => flags'[d] \cap {"CF_ACTIVE", "CF_CLOSED"} # {}
                      /\ recyclePending'[d] => "CF_CLOSED" \in flags'[d]
                      /\ "CF_AVAILABLE" \in flags'[d] => ~socket'[d]
    BY DEF FlagInv
  <2>1. CASE d = c
    BY <1>9, <2>1
  <2>2. CASE d # c
    BY <1>1, <1>9, <2>2 DEF FlagInv
  <2> QED BY <2>1, <2>2
<1>15. ShapeInv'
  BY <1>1, <1>2, <1>4, ShapeStep DEF Working
<1>16. GoodInv'
  <2>1. Good(thread[t])'
    BY <1>4, <1>8 DEF Good, OpensWell, ClosesWell, LocksWell, Keeps, Order
  <2>2. ASSUME NEW u \in Threads \ {t}
        PROVE LET h == thread[u]  d == thread[u].pc IN
         /\ h.at \in {"opening", "adding", "linking"} =>
              flags'[d] = flags[d] /\ (~recyclePending[d] => ~recyclePending'[d])
         /\ h.at = "linking" =>
              me'[d] = me[d] /\ next'[d] = next[d] /\ next'["ActiveClients"] = next["ActiveClients"]
         /\ h.at \in Order => flags'[d] \cap {"CF_ACTIVE", "CF_CLOSED"} # {}
         /\ h.at = "clearing" => "CF_CLOSED" \in flags'[d]
         /\ Keeps(h) => \/ /\ serial'[d] = serial[d] /\ connection'[d] = connection[d]
                           /\ "CF_ACTIVE" \in flags[d] => "CF_ACTIVE" \in flags'[d]
                        \/ serial'[d] = serial[d] /\ "CF_ACTIVE" \notin flags[d]
    <3> DEFINE h == thread[u]
               d == thread[u].pc
    <3>1. Good(h) /\ Shape(u, h)
      BY <1>1 DEF Working, GoodInv, ShapeInv
    <3>2. h.at \in {"opening", "adding", "linking"} \cup Order => d \in Clients /\ d # c
      <4>1. h.at \in {"opening", "adding", "linking"} => d \in Clients /\ d # c
        BY <1>1, <1>3, OpenedIs
      <4>2. h.at \in Order => d \in Clients
        BY <3>1 DEF Shape, Role, Order
      <4>3. h.at \in Order => d # c
        BY <1>1, <1>2 DEF Working, ClearInv, c
      <4> QED BY <4>1, <4>2, <4>3
    <3>3. h.at # "clearing"
      <4>1. h.at = "clearing" => Networks(h)
        BY DEF Networks
      <4> QED BY <1>1, <1>5, <4>1, OneNetwork DEF Working
    <3>4. h.at = "linking" => d \in Clients /\ Linking(d)
      <4>1. h.at = "linking" => u \in Openers
        BY <3>1 DEF Shape, Role
      <4> QED BY <3>2, <4>1 DEF Linking
    <3>5. Keeps(h) => d \in Clients
      BY <3>1 DEF Shape, Role, Keeps
    <3> HIDE DEF h, d
    <3>6. h.at \in Order => flags[d] \cap {"CF_ACTIVE", "CF_CLOSED"} # {}
      BY <3>1 DEF Good, ClosesWell, h, d
    <3>7. d # c /\ d \in Clients => flags'[d] = flags[d] /\ recyclePending'[d] = recyclePending[d]
      BY <1>9
    <3>8. d = c \/ (d \in Clients => flags'[d] = flags[d])
      BY <1>9
    <3> QED BY <1>2, <1>10, <1>12, <3>2, <3>3, <3>4, <3>5, <3>6, <3>7, <3>8 DEF h, d
  <2> QED BY <1>1, <1>2, <2>1, <2>2, GoodStep DEF Working
<1>17. ClearInv'
  <2>1. k.at \notin Order /\ k.at # "clearing"
    BY <1>4 DEF Order
  <2> QED BY <1>1, <1>2, <2>1, ClearStep DEF Working
<1>18. KnownInv'
  <2>1. \A u \in Threads, d \in Clients : Fresh(thread[u], d) => Fresh(thread'[u], d)
    <3>1. \A d \in Clients : ~Fresh(thread[t], d)
      BY <1>2 DEF Fresh
    <3> QED BY <1>1, <1>2, <3>1, FreshSame
  <2> QED BY <1>1, <1>9, <2>1 DEF Working, KnownInv, Threads
<1>19. PendingHasRecycler'
  <2>1. \A d \in Clients : Held(d)' <=> Held(d)
    BY <1>2 DEF Held
  <2>2. \A d \in Clients : recyclePending'[d] => recyclePending[d]
    BY <1>9
  <2> QED BY <1>1, <1>2, <2>1, <2>2, PendingStep DEF Working
<1> QED BY <1>2, <1>7, <1>12, <1>13, <1>14, <1>15, <1>16, <1>17, <1>18, <1>19 DEF Inv, Working

(***************************************************************************)
(* Closing                                                                 *)
(***************************************************************************)

\* A thread that closes a client, at its sections, is the only one to have them.
LEMMA ClosingAlone ==
  ASSUME Working, NEW t \in Threads, thread[t].at \in Order, Shape(t, thread[t])
  PROVE  LET c == thread[t].pc IN
         /\ c \in Clients /\ \A ch \in Channels : Owns(t, thread[t], c, ch)
         /\ \A u \in Threads \ {t} :
              thread[u].at \in {"opening", "adding", "linking", "holding"} \cup Order => thread[u].pc # c
<1> DEFINE c == thread[t].pc
<1>1. c \in Clients /\ \A ch \in Channels : Owns(t, thread[t], c, ch)
  BY DEF Order, Owns, Shape, Role
<1>2. ASSUME NEW u \in Threads \ {t}, thread[u].at \in {"opening", "adding", "linking", "holding"} \cup Order,
             thread[u].pc = c
      PROVE  FALSE
  <2>1. Owns(u, thread[u], c, 0) \/ Owns(u, thread[u], c, 1)
    <3>1. CASE thread[u].at = "holding"
      <4>1. thread[u].done \in {Only(0), Only(1)}
        BY <3>1 DEF Working, ShapeInv, Shape, Locking
      <4> QED BY <1>2, <3>1, <4>1 DEF Owns
    <3>2. CASE thread[u].at # "holding"
      BY <1>2, <3>2 DEF Owns, Order
    <3> QED BY <3>1, <3>2
  <2> QED BY <1>1, <2>1, OneOwner DEF Working, Channels
<1> QED BY <1>1, <1>2

\* The mark and the serial of a client that closes: Notify keeps the invariant.
LEMMA NotifyKeeps ==
  ASSUME Inv, ~fault, NEW t \in Threads, Notify(t)
  PROVE  Inv'
<1> DEFINE c == thread[t].pc
           closing == "CF_CLOSING" \in flags[c]
           k == At(thread[t], "callback")
           s == IF closing THEN Entered(csNetwork, t) ELSE csNetwork
<1>1. thread[t] \in Calls /\ Shape(t, thread[t]) /\ Good(thread[t]) /\ Typed /\ SectionsOK /\ FlagInv /\ Working
      /\ thread \in [Threads -> Calls]
  BY Unpack
<1>2. /\ thread[t].at = "notify" /\ csNetwork' = s /\ thread' = [thread EXCEPT ![t] = k] /\ Free(csNetwork, t)
      /\ flags' = [flags EXCEPT ![c] = @ \cup {"CF_CLOSING"}]
      /\ serial' = IF closing THEN serial ELSE [serial EXCEPT ![c] = @ + 1]
      /\ UNCHANGED <<lists, socket, recyclePending, csLock, connection, fault>> /\ opens' \in 0..MaxOpens
  BY <1>1 DEF Notify, GoTo, history, Typed
<1>3. thread[t].at \in Order
  BY <1>2 DEF Order
<1>4. /\ c \in Clients /\ \A ch \in Channels : Owns(t, thread[t], c, ch)
      /\ \A u \in Threads \ {t} :
              thread[u].at \in {"opening", "adding", "linking", "holding"} \cup Order => thread[u].pc # c
  BY <1>1, <1>3, ClosingAlone
<1>5. k \in Calls /\ k.at = "callback" /\ k.pc = c /\ k.locked = thread[t].locked
  BY <1>1, AtIs DEF Places
<1> HIDE DEF k
<1>6. Shape(t, k)
  BY <1>1, <1>2, <1>5 DEF Shape, Role, Locking, Unlocking
<1>7. ~Networks(k) /\ \A d \in Clients, ch \in Channels : Owns(t, k, d, ch) <=> Owns(t, thread[t], d, ch)
  BY <1>2, <1>5 DEF Networks, Owns
<1>8. csNetwork.owner = None /\ csNetwork.locks = 0 /\ csNetwork \in Sections
  <2>1. ~Networks(thread[t])
    BY <1>2 DEF Networks
  <2>2. csNetwork.owner # t
    BY <1>1, <1>2, <2>1 DEF Working, NetInv
  <2>3. csNetwork.owner = None
    BY <1>2, <2>2 DEF Free
  <2> QED BY <1>1, <2>3 DEF SectionsOK, Typed
<1>9. s \in Sections /\ ((s.owner = None /\ s.locks = 0) \/ (s.owner = t /\ s.locks = 1))
  <2>1. CASE closing
    <3>1. s = [owner |-> t, locks |-> 1]
      BY <1>8, <2>1 DEF Entered
    <3> HIDE DEF s
    <3> QED BY <3>1 DEF Sections
  <2>2. CASE ~closing
    BY <1>8, <2>2
  <2> QED BY <2>1, <2>2
<1> HIDE DEF s
<1>10. SectionsOK' /\ OwnInv' /\ NetInv' /\ csNetwork' \in Sections /\ csLock' \in [Clients -> [Channels -> Sections]]
  <2>1. OwnInv /\ NetInv /\ Typed /\ SectionsOK /\ csLock' = csLock /\ csNetwork.owner \in {None, t}
    BY <1>1, <1>2, <1>8 DEF Working
  <2>2. /\ (s.owner = None /\ s.locks = 0) \/ (s.owner = t /\ s.locks # 0)
        /\ Networks(k) => s = [owner |-> t, locks |-> Depth(k)]
        /\ s.owner = t => Networks(k) \/ (k.at = "callback" /\ s.locks = 1)
    BY <1>5, <1>7, <1>9, Distinct
  <2> QED BY <1>2, <1>5, <1>7, <1>9, <2>1, <2>2, NetworkStep
<1>11. thread'[t] = k /\ \A u \in Threads \ {t} : thread'[u] = thread[u]
  BY <1>1, <1>2
<1>12. /\ flags'[c] = flags[c] \cup {"CF_CLOSING"} /\ \A d \in Clients \ {c} : flags'[d] = flags[d]
       /\ flags' \in [Clients -> SUBSET (CF_STATEFLAGS \cup {"CF_CLOSING"})]
       /\ \A d \in Clients : flags'[d] \cap CF_STATEFLAGS = flags[d] \cap CF_STATEFLAGS
  <2>1. flags'[c] = flags[c] \cup {"CF_CLOSING"} /\ \A d \in Clients \ {c} : flags'[d] = flags[d]
    BY <1>1, <1>2, <1>4 DEF Typed
  <2>2. flags' \in [Clients -> SUBSET (CF_STATEFLAGS \cup {"CF_CLOSING"})]
    BY <1>1, <1>2, <1>4 DEF Typed
  <2>3. "CF_CLOSING" \notin CF_STATEFLAGS
    BY DEF CF_STATEFLAGS
  <2> QED BY <2>1, <2>2, <2>3
<1>13. /\ serial' \in [Clients -> Nat]
       /\ \A d \in Clients \ {c} : serial'[d] = serial[d]
       /\ serial[c] \in Nat /\ (serial'[c] = serial[c] \/ serial'[c] = serial[c] + 1)
  BY <1>1, <1>2, <1>4 DEF Typed
<1> HIDE DEF closing
<1>14. Typed'
  BY <1>1, <1>2, <1>5, <1>10, <1>12, <1>13 DEF Typed, LinksType, lists
<1>15. flags[c] \cap {"CF_ACTIVE", "CF_CLOSED"} # {}
  BY <1>1, <1>3 DEF Good, ClosesWell
<1>16. FlagInv'
  <2> SUFFICES ASSUME NEW d \in Clients
               PROVE  /\ \A f, g \in flags'[d] \cap CF_STATEFLAGS : f = g
                      /\ "CF_CLOSING" \in flags'[d] => flags'[d] \cap {"CF_ACTIVE", "CF_CLOSED"} # {}
                      /\ recyclePending'[d] => "CF_CLOSED" \in flags'[d]
                      /\ "CF_AVAILABLE" \in flags'[d] => ~socket'[d]
    BY DEF FlagInv
  <2>1. /\ \A f, g \in flags'[d] \cap CF_STATEFLAGS : f = g
        /\ recyclePending'[d] => "CF_CLOSED" \in flags'[d]
        /\ "CF_AVAILABLE" \in flags'[d] => ~socket'[d]
    BY <1>1, <1>2, <1>12 DEF FlagInv
  <2>2. "CF_CLOSING" \in flags'[d] => flags'[d] \cap {"CF_ACTIVE", "CF_CLOSED"} # {}
    BY <1>1, <1>12, <1>15 DEF FlagInv
  <2> QED BY <2>1, <2>2
<1>17. ShapeInv'
  BY <1>1, <1>2, <1>6, ShapeStep DEF Working
<1> HIDE DEF c
<1>18. GoodInv'
  <2>1. Good(thread[t])'
    BY <1>5, <1>11, <1>12, <1>15 DEF Good, OpensWell, ClosesWell, LocksWell, Keeps, Order
  <2>2. ASSUME NEW u \in Threads \ {t}
        PROVE LET h == thread[u]  d == thread[u].pc IN
         /\ h.at \in {"opening", "adding", "linking"} =>
              flags'[d] = flags[d] /\ (~recyclePending[d] => ~recyclePending'[d])
         /\ h.at = "linking" =>
              me'[d] = me[d] /\ next'[d] = next[d] /\ next'["ActiveClients"] = next["ActiveClients"]
         /\ h.at \in Order => flags'[d] \cap {"CF_ACTIVE", "CF_CLOSED"} # {}
         /\ h.at = "clearing" => "CF_CLOSED" \in flags'[d]
         /\ Keeps(h) => \/ /\ serial'[d] = serial[d] /\ connection'[d] = connection[d]
                           /\ "CF_ACTIVE" \in flags[d] => "CF_ACTIVE" \in flags'[d]
                        \/ serial[d] \in Nat /\ serial'[d] = serial[d] + 1 /\ h.at # "holding"
    <3> DEFINE h == thread[u]
               d == thread[u].pc
    <3>1. Good(h) /\ Shape(u, h)
      BY <1>1 DEF Working, GoodInv, ShapeInv
    <3>2. h.at \in {"opening", "adding", "linking"} => d \in Clients /\ d # c
      BY <1>1, <1>4, OpenedIs
    <3>3. Keeps(h) \/ h.at \in Order \cup {"clearing"} => d \in Clients
      BY <3>1 DEF Shape, Role, Keeps, Order
    <3>4. h.at = "holding" => d # c
      BY <1>4
    <3>5. h.at \in Order => flags[d] \cap {"CF_ACTIVE", "CF_CLOSED"} # {}
      BY <3>1 DEF Good, ClosesWell
    <3>6. h.at = "clearing" => "CF_CLOSED" \in flags[d]
      BY <3>1 DEF Good, ClosesWell
    <3> HIDE DEF h, d
    <3>7. d \in Clients => flags[d] \subseteq flags'[d] /\ (d # c => flags'[d] = flags[d])
      BY <1>12
    <3>8. d \in Clients => \/ serial'[d] = serial[d]
                           \/ serial[d] \in Nat /\ serial'[d] = serial[d] + 1 /\ d = c
      BY <1>13
    <3>9. UNCHANGED <<next, me, recyclePending, connection>>
      BY <1>2 DEF lists
    <3>10. Keeps(h) => \/ /\ serial'[d] = serial[d] /\ connection'[d] = connection[d]
                          /\ "CF_ACTIVE" \in flags[d] => "CF_ACTIVE" \in flags'[d]
                       \/ serial[d] \in Nat /\ serial'[d] = serial[d] + 1 /\ h.at # "holding"
      BY <3>3, <3>4, <3>7, <3>8, <3>9
    <3> QED BY <3>2, <3>3, <3>5, <3>6, <3>7, <3>9, <3>10 DEF h, d
  <2> QED BY <1>1, <1>2, <2>1, <2>2, GoodStep DEF Working
<1>19. ClearInv'
  BY <1>1, <1>2, <1>3, <1>5, ClearStep DEF Working, Order, c
<1>20. ListInv'
  <2>1. \A d \in Clients : Linking(d)' <=> Linking(d)
    BY <1>1, <1>2, <1>5, LinkingSame
  <2>2. \A l \in Lists : In(l)' = In(l)
    BY <1>12, <2>1, InSame
  <2> QED BY <1>1, <1>2, <2>2, ListSame DEF Working
<1>21. KnownInv'
  <2>1. \A u \in Threads, d \in Clients : Fresh(thread[u], d) => Fresh(thread'[u], d)
    <3>1. \A d \in Clients : ~Fresh(thread[t], d)
      BY <1>2 DEF Fresh
    <3> QED BY <1>1, <1>2, <3>1, FreshSame
  <2> QED BY <1>1, <1>2, <1>12, <2>1 DEF Working, KnownInv, Threads
<1>22. PendingHasRecycler'
  <2>1. \A d \in Clients : Held(d)' <=> Held(d)
    BY <1>2 DEF Held
  <2> QED BY <1>1, <1>2, <2>1, PendingStep DEF Working
<1> QED BY <1>2, <1>10, <1>14, <1>16, <1>17, <1>18, <1>19, <1>20, <1>21, <1>22 DEF Inv, Working

\* Unmark keeps the invariant.
LEMMA UnmarkKeeps ==
  ASSUME Inv, ~fault, NEW t \in Threads, Unmark(t)
  PROVE  Inv'
<1> DEFINE c == thread[t].pc
           k == Dropped(thread[t])
<1>1. thread[t] \in Calls /\ Shape(t, thread[t]) /\ Good(thread[t]) /\ Typed /\ SectionsOK /\ FlagInv /\ Working
      /\ thread \in [Threads -> Calls]
  BY Unpack
<1>2. /\ thread[t].at = "unmark" /\ thread' = [thread EXCEPT ![t] = k]
      /\ flags' = [flags EXCEPT ![c] = @ \ {"CF_CLOSING"}]
      /\ UNCHANGED <<lists, socket, serial, recyclePending, csLock, csNetwork, connection, fault>>
      /\ opens' \in 0..MaxOpens
  BY <1>1 DEF Unmark, history, Typed
<1>3. c \in Clients /\ t \in EventThreads
  BY <1>1, <1>2 DEF Shape, Role
<1>4. /\ k \in Calls /\ Shape(t, k) /\ Good(k) /\ ~Networks(k) /\ k.at \in {"unlocking", "idle"}
      /\ \A d \in Clients, ch \in Channels : Owns(t, k, d, ch) <=> c = d /\ thread[t].locked /\ ch = 1
  BY <1>1, <1>3, DroppedIs
<1> HIDE DEF k
<1>5. \A d \in Clients, ch \in Channels : Owns(t, k, d, ch) <=> Owns(t, thread[t], d, ch)
  BY <1>2, <1>4 DEF Owns
<1>6. ~Networks(thread[t])
  BY <1>2 DEF Networks
<1>7. thread'[t] = k /\ \A u \in Threads \ {t} : thread'[u] = thread[u]
  BY <1>1, <1>2
<1>8. SectionsOK' /\ OwnInv'
  <2>1. SectionsOK'
    BY <1>1, <1>2 DEF SectionsOK
  <2>2. OwnInv'
    BY <1>1, <1>2, <1>5, <1>7 DEF Working, OwnInv
  <2> QED BY <2>1, <2>2
<1>9. NetInv'
  <2>1. csNetwork.owner # t
    BY <1>1, <1>2, <1>6 DEF Working, NetInv
  <2> QED BY <1>1, <1>2, <1>4, <1>7, <2>1 DEF Working, NetInv
<1>10. /\ flags'[c] = flags[c] \ {"CF_CLOSING"} /\ \A d \in Clients \ {c} : flags'[d] = flags[d]
       /\ flags' \in [Clients -> SUBSET (CF_STATEFLAGS \cup {"CF_CLOSING"})]
       /\ \A d \in Clients : flags'[d] \cap CF_STATEFLAGS = flags[d] \cap CF_STATEFLAGS
  <2>1. flags'[c] = flags[c] \ {"CF_CLOSING"} /\ \A d \in Clients \ {c} : flags'[d] = flags[d]
    BY <1>1, <1>2, <1>3 DEF Typed
  <2>2. flags' \in [Clients -> SUBSET (CF_STATEFLAGS \cup {"CF_CLOSING"})]
    BY <1>1, <1>2, <1>3 DEF Typed
  <2>3. "CF_CLOSING" \notin CF_STATEFLAGS
    BY DEF CF_STATEFLAGS
  <2> QED BY <2>1, <2>2, <2>3
<1> HIDE DEF c
<1>11. \A d \in Clients : \A f \in CF_STATEFLAGS : f \in flags'[d] <=> f \in flags[d]
  BY <1>10
<1>12. \A d \in Clients : flags'[d] = flags[d] \/ flags'[d] = flags[d] \ {"CF_CLOSING"}
  BY <1>10
<1>13. "CF_ACTIVE" \in CF_STATEFLAGS /\ "CF_CLOSED" \in CF_STATEFLAGS /\ "CF_AVAILABLE" \in CF_STATEFLAGS
  BY DEF CF_STATEFLAGS
<1>14. Typed'
  BY <1>1, <1>2, <1>4, <1>10 DEF Typed, LinksType, lists
<1>15. FlagInv'
  <2> SUFFICES ASSUME NEW d \in Clients
               PROVE  /\ \A f, g \in flags'[d] \cap CF_STATEFLAGS : f = g
                      /\ "CF_CLOSING" \in flags'[d] => flags'[d] \cap {"CF_ACTIVE", "CF_CLOSED"} # {}
                      /\ recyclePending'[d] => "CF_CLOSED" \in flags'[d]
                      /\ "CF_AVAILABLE" \in flags'[d] => ~socket'[d]
    BY DEF FlagInv
  <2>1. "CF_CLOSING" \in flags'[d] => "CF_CLOSING" \in flags[d]
    BY <1>12
  <2> QED BY <1>1, <1>2, <1>10, <1>11, <1>13, <2>1 DEF FlagInv
<1>16. ShapeInv'
  BY <1>1, <1>2, <1>4, ShapeStep DEF Working
<1>17. GoodInv'
  <2>1. Good(thread[t])'
    BY <1>4, <1>7 DEF Good, OpensWell, ClosesWell, LocksWell, Keeps, Order
  <2>2. ASSUME NEW u \in Threads \ {t}
        PROVE LET h == thread[u]  d == thread[u].pc IN
         /\ h.at \in {"opening", "adding", "linking"} =>
              flags'[d] = flags[d] /\ (~recyclePending[d] => ~recyclePending'[d])
         /\ h.at = "linking" =>
              me'[d] = me[d] /\ next'[d] = next[d] /\ next'["ActiveClients"] = next["ActiveClients"]
         /\ h.at \in Order => flags'[d] \cap {"CF_ACTIVE", "CF_CLOSED"} # {}
         /\ h.at = "clearing" => "CF_CLOSED" \in flags'[d]
         /\ Keeps(h) => /\ serial'[d] = serial[d] /\ connection'[d] = connection[d]
                        /\ "CF_ACTIVE" \in flags[d] => "CF_ACTIVE" \in flags'[d]
    <3> DEFINE h == thread[u]
               d == thread[u].pc
    <3>1. Good(h) /\ Shape(u, h)
      BY <1>1 DEF Working, GoodInv, ShapeInv
    <3>2. h.at \in {"opening", "adding", "linking"} => d \in Clients /\ "CF_CLOSING" \notin flags[d]
      BY <1>1, OpenedIs
    <3>3. Keeps(h) \/ h.at \in Order \cup {"clearing"} => d \in Clients
      BY <3>1 DEF Shape, Role, Keeps, Order
    <3>4. h.at \in Order => flags[d] \cap {"CF_ACTIVE", "CF_CLOSED"} # {}
      BY <3>1 DEF Good, ClosesWell
    <3>5. h.at = "clearing" => "CF_CLOSED" \in flags[d]
      BY <3>1 DEF Good, ClosesWell
    <3> HIDE DEF h, d
    <3>6. d \in Clients /\ "CF_CLOSING" \notin flags[d] => flags'[d] = flags[d]
      BY <1>12
    <3>7. d \in Clients => ("CF_ACTIVE" \in flags'[d] <=> "CF_ACTIVE" \in flags[d])
                           /\ ("CF_CLOSED" \in flags'[d] <=> "CF_CLOSED" \in flags[d])
      BY <1>11, <1>13
    <3>8. UNCHANGED <<next, me, recyclePending, connection, serial>>
      BY <1>2 DEF lists
    <3> QED BY <3>2, <3>3, <3>4, <3>5, <3>6, <3>7, <3>8 DEF h, d
  <2> QED BY <1>1, <1>2, <2>1, <2>2, GoodStep DEF Working
<1>18. ClearInv'
  <2>1. k.at \notin Order /\ k.at # "clearing"
    BY <1>4 DEF Order
  <2> QED BY <1>1, <1>2, <2>1, ClearStep DEF Working
<1>19. ListInv'
  <2>1. \A d \in Clients : Linking(d)' <=> Linking(d)
    BY <1>1, <1>2, <1>4, LinkingSame
  <2>2. \A l \in Lists : In(l)' = In(l)
    BY <1>10, <2>1, InSame
  <2> QED BY <1>1, <1>2, <2>2, ListSame DEF Working
<1>20. KnownInv'
  <2>1. \A u \in Threads, d \in Clients : Fresh(thread[u], d) => Fresh(thread'[u], d)
    <3>1. \A d \in Clients : ~Fresh(thread[t], d)
      BY <1>2 DEF Fresh
    <3> QED BY <1>1, <1>2, <3>1, FreshSame
  <2> QED BY <1>1, <1>2, <1>10, <2>1 DEF Working, KnownInv, Threads
<1>21. PendingHasRecycler'
  <2>1. \A d \in Clients : Held(d)' <=> Held(d)
    BY <1>2 DEF Held
  <2> QED BY <1>1, <1>2, <2>1, PendingStep DEF Working
<1> QED BY <1>2, <1>8, <1>9, <1>14, <1>15, <1>16, <1>17, <1>18, <1>19, <1>20, <1>21 DEF Inv, Working

\* The move to the closed clients, of a client nobody else has locked: AddClosed keeps the invariant.
LEMMA AddClosedKeeps ==
  ASSUME Inv, Orderly, ~fault, NEW t \in Threads, AddClosed(t)
  PROVE  Inv'
<1> DEFINE c == thread[t].pc
           k == ToUnlock(thread[t], Both, "finish")
           s == IF csNetwork.owner = t THEN csNetwork ELSE Entered(csNetwork, t)
<1>1. thread[t] \in Calls /\ Shape(t, thread[t]) /\ Good(thread[t]) /\ Typed /\ SectionsOK /\ FlagInv /\ Working
      /\ thread \in [Threads -> Calls]
  BY Unpack
<1>2. /\ thread[t].at = "callback" /\ csNetwork' = s /\ thread' = [thread EXCEPT ![t] = k] /\ Free(csNetwork, t)
      /\ MoveTo("ClosedClients", c)
      /\ flags' = [flags EXCEPT ![c] = (@ \ CF_STATEFLAGS) \cup {"CF_CLOSED"}]
      /\ serial' = [serial EXCEPT ![c] = @ + 1]
      /\ UNCHANGED <<socket, recyclePending, csLock, connection, fault>> /\ opens' \in 0..MaxOpens
  BY <1>1 DEF AddClosed, CloseClient, history, Typed, Both
<1>3. thread[t].at \in Order
  BY <1>2 DEF Order
<1>4. /\ c \in Clients /\ \A ch \in Channels : Owns(t, thread[t], c, ch)
      /\ \A u \in Threads \ {t} :
              thread[u].at \in {"opening", "adding", "linking", "holding"} \cup Order => thread[u].pc # c
  BY <1>1, <1>3, ClosingAlone
<1>5. t \in Closers /\ t \notin EventThreads /\ ~thread[t].locked
  <2>1. t \in Closers /\ (thread[t].locked => t \in EventThreads)
    BY <1>1, <1>2 DEF Shape, Role
  <2> QED BY <2>1, Distinct
<1>6. /\ k \in Calls /\ k.at = "unlocking" /\ k.todo = Both /\ k.ok = "finish" /\ k.pc = c
      /\ k.locked = thread[t].locked
  <2>1. Both \in Seq(Channels) /\ "finish" \in Places
    BY WordsAre DEF Places
  <2> QED BY <1>1, <2>1, ToUnlockIs
<1> HIDE DEF k
<1>7. Shape(t, k)
  BY <1>4, <1>5, <1>6 DEF Shape, Role, Locking, Unlocking, Onwards
<1>8. /\ Networks(k) /\ Depth(k) = 1
      /\ \A d \in Clients, ch \in Channels : Owns(t, k, d, ch) <=> Owns(t, thread[t], d, ch)
  <2>1. Networks(k) /\ Depth(k) = 1
    BY <1>6 DEF Networks, Depth
  <2>2. \A d \in Clients, ch \in Channels : Owns(t, k, d, ch) <=> d = c
    BY <1>5, <1>6 DEF Owns
  <2>3. \A d \in Clients, ch \in Channels : Owns(t, thread[t], d, ch) <=> d = c
    BY <1>2 DEF Owns
  <2> QED BY <2>1, <2>2, <2>3
<1>9. s = [owner |-> t, locks |-> 1] /\ csNetwork.owner \in {None, t}
  <2>1. ~Networks(thread[t])
    BY <1>2 DEF Networks
  <2>2. csNetwork \in Sections /\ csNetwork.owner \in {None, t}
    BY <1>1, <1>2 DEF Typed, Free
  <2>3. CASE csNetwork.owner = t
    <3>1. csNetwork.locks = 1
      BY <1>1, <2>1, <2>3 DEF Working, NetInv
    <3> QED BY <2>2, <2>3, <3>1 DEF Sections
  <2>4. CASE csNetwork.owner # t
    <3>1. csNetwork.owner = None
      BY <2>2, <2>4
    <3>2. csNetwork.locks = 0
      BY <1>1, <3>1 DEF SectionsOK
    <3> QED BY <2>2, <2>4, <3>2 DEF Entered
  <2> QED BY <2>2, <2>3, <2>4
<1> HIDE DEF s
<1>10. SectionsOK' /\ OwnInv' /\ NetInv' /\ csNetwork' \in Sections /\ csLock' \in [Clients -> [Channels -> Sections]]
  <2>1. OwnInv /\ NetInv /\ Typed /\ SectionsOK /\ csLock' = csLock
    BY <1>1, <1>2 DEF Working
  <2>2. s \in Sections /\ s.owner = t /\ s.locks # 0 /\ (Networks(k) => s = [owner |-> t, locks |-> Depth(k)])
    BY <1>8, <1>9 DEF Sections
  <2> QED BY <1>2, <1>6, <1>8, <1>9, <2>1, <2>2, NetworkStep
<1>11. thread'[t] = k /\ \A u \in Threads \ {t} : thread'[u] = thread[u]
  BY <1>1, <1>2
<1>12. /\ flags'[c] = (flags[c] \ CF_STATEFLAGS) \cup {"CF_CLOSED"} /\ \A d \in Clients \ {c} : flags'[d] = flags[d]
       /\ flags' \in [Clients -> SUBSET (CF_STATEFLAGS \cup {"CF_CLOSING"})]
  <2>1. "CF_CLOSED" \in CF_STATEFLAGS
    BY DEF CF_STATEFLAGS
  <2> QED BY <1>1, <1>2, <1>4, <2>1 DEF Typed
<1>13. /\ serial' \in [Clients -> Nat]
       /\ \A d \in Clients \ {c} : serial'[d] = serial[d]
       /\ serial[c] \in Nat /\ serial'[c] = serial[c] + 1
  BY <1>1, <1>2, <1>4 DEF Typed
<1>14. \A u \in Threads : thread[u].at # "linking"
  <2> SUFFICES ASSUME NEW u \in Threads, thread[u].at = "linking" PROVE FALSE
    OBVIOUS
  <2>1. u \in Openers /\ u # t
    BY <1>1, <1>2 DEF Working, ShapeInv, Shape, Role
  <2>2. thread[t].at \notin {"linking", "callback"}
    BY <2>1 DEF Orderly, UndisturbedOpen
  <2> QED BY <1>2, <2>2
<1>15. \A d \in Clients : ~Linking(d) /\ (Linking(d)' <=> Linking(d))
  <2>1. \A d \in Clients : ~Linking(d)
    BY <1>14 DEF Linking, Threads
  <2>2. \A d \in Clients : Linking(d)' <=> Linking(d)
    BY <1>1, <1>2, <1>6, LinkingSame
  <2> QED BY <2>1, <2>2
<1>16. flags'[c] \cap CF_STATEFLAGS = {"CF_CLOSED"}
  BY <1>12 DEF CF_STATEFLAGS
<1>17. LinksType(next', me') /\ ListInv'
  <2>1. PICK j \in Lists : Flag[j] \in flags[c]
    <3>1. flags[c] \cap {"CF_ACTIVE", "CF_CLOSED"} # {}
      BY <1>1, <1>3 DEF Good, ClosesWell
    <3>2. "CF_ACTIVE" \in flags[c] \/ "CF_CLOSED" \in flags[c]
      BY <3>1
    <3>3. "ActiveClients" \in Lists /\ "ClosedClients" \in Lists
      BY DEF Lists
    <3> QED BY <3>2, <3>3, FlagIs
  <2>2. "ClosedClients" \in Lists /\ Flag["ClosedClients"] = "CF_CLOSED"
    BY FlagIs DEF Lists
  <2>3. Typed /\ FlagInv /\ ListInv
    BY <1>1 DEF Working
  <2> HIDE DEF c
  <2> QED BY <1>2, <1>4, <1>12, <1>15, <1>16, <2>1, <2>2, <2>3, MoveStep
<1>18. Typed'
  BY <1>1, <1>2, <1>6, <1>10, <1>12, <1>13, <1>17 DEF Typed
<1>19. FlagInv'
  <2> SUFFICES ASSUME NEW d \in Clients
               PROVE  /\ \A f, g \in flags'[d] \cap CF_STATEFLAGS : f = g
                      /\ "CF_CLOSING" \in flags'[d] => flags'[d] \cap {"CF_ACTIVE", "CF_CLOSED"} # {}
                      /\ recyclePending'[d] => "CF_CLOSED" \in flags'[d]
                      /\ "CF_AVAILABLE" \in flags'[d] => ~socket'[d]
    BY DEF FlagInv
  <2>1. CASE d = c
    <3>1. "CF_AVAILABLE" \in CF_STATEFLAGS
      BY DEF CF_STATEFLAGS
    <3> QED BY <1>12, <1>16, <2>1, <3>1
  <2>2. CASE d # c
    BY <1>1, <1>2, <1>12, <2>2 DEF FlagInv
  <2> QED BY <2>1, <2>2
<1>20. ShapeInv'
  BY <1>1, <1>2, <1>7, ShapeStep DEF Working
<1> HIDE DEF c
<1>21. GoodInv'
  <2>1. Good(thread[t])'
    BY <1>6, <1>11 DEF Good, OpensWell, ClosesWell, LocksWell, Keeps, Order
  <2>2. ASSUME NEW u \in Threads \ {t}
        PROVE LET h == thread[u]  d == thread[u].pc IN
         /\ h.at \in {"opening", "adding", "linking"} =>
              flags'[d] = flags[d] /\ (~recyclePending[d] => ~recyclePending'[d])
         /\ h.at = "linking" =>
              me'[d] = me[d] /\ next'[d] = next[d] /\ next'["ActiveClients"] = next["ActiveClients"]
         /\ h.at \in Order => flags'[d] \cap {"CF_ACTIVE", "CF_CLOSED"} # {}
         /\ h.at = "clearing" => "CF_CLOSED" \in flags'[d]
         /\ Keeps(h) => \/ /\ serial'[d] = serial[d] /\ connection'[d] = connection[d]
                           /\ "CF_ACTIVE" \in flags[d] => "CF_ACTIVE" \in flags'[d]
                        \/ serial[d] \in Nat /\ serial'[d] = serial[d] + 1 /\ h.at # "holding"
    <3> DEFINE h == thread[u]
               d == thread[u].pc
    <3>1. Good(h) /\ Shape(u, h)
      BY <1>1 DEF Working, GoodInv, ShapeInv
    <3>2. h.at \in {"opening", "adding", "linking"} => d \in Clients /\ d # c
      BY <1>1, <1>4, OpenedIs
    <3>3. Keeps(h) \/ h.at \in Order \cup {"clearing"} => d \in Clients
      BY <3>1 DEF Shape, Role, Keeps, Order
    <3>4. h.at = "holding" => d # c
      BY <1>4
    <3>5. h.at \in Order => flags[d] \cap {"CF_ACTIVE", "CF_CLOSED"} # {}
      BY <3>1 DEF Good, ClosesWell
    <3>6. h.at = "clearing" => "CF_CLOSED" \in flags[d]
      BY <3>1 DEF Good, ClosesWell
    <3>7. h.at # "linking"
      BY <1>14
    <3> HIDE DEF h, d
    <3>8. d \in Clients /\ d # c => flags'[d] = flags[d] /\ serial'[d] = serial[d]
      BY <1>12, <1>13
    <3>9. d = c => "CF_CLOSED" \in flags'[d] /\ serial[d] \in Nat /\ serial'[d] = serial[d] + 1
      BY <1>12, <1>13
    <3>10. UNCHANGED <<recyclePending, connection>>
      BY <1>2
    <3>11. Keeps(h) => \/ /\ serial'[d] = serial[d] /\ connection'[d] = connection[d]
                          /\ "CF_ACTIVE" \in flags[d] => "CF_ACTIVE" \in flags'[d]
                       \/ serial[d] \in Nat /\ serial'[d] = serial[d] + 1 /\ h.at # "holding"
      BY <3>3, <3>4, <3>8, <3>9, <3>10
    <3> QED BY <3>2, <3>3, <3>5, <3>6, <3>7, <3>8, <3>9, <3>10, <3>11 DEF h, d
  <2> QED BY <1>1, <1>2, <2>1, <2>2, GoodStep DEF Working
<1>22. ClearInv'
  <2>1. k.at \notin Order /\ k.at # "clearing"
    BY <1>6 DEF Order
  <2> QED BY <1>1, <1>2, <2>1, ClearStep DEF Working
<1>23. KnownInv'
  <2>1. \A u \in Threads, d \in Clients : Fresh(thread[u], d) => Fresh(thread'[u], d)
    <3>1. \A d \in Clients : ~Fresh(thread[t], d)
      BY <1>2 DEF Fresh
    <3> QED BY <1>1, <1>2, <3>1, FreshSame
  <2>2. \A d \in Clients : flags'[d] \cap CF_STATEFLAGS = {} => flags[d] \cap CF_STATEFLAGS = {}
    BY <1>12, <1>16
  <2> QED BY <1>1, <1>2, <2>1, <2>2 DEF Working, KnownInv, Threads
<1>24. PendingHasRecycler'
  <2>1. \A d \in Clients : Held(d)' <=> Held(d)
    BY <1>2 DEF Held
  <2> QED BY <1>1, <1>2, <2>1, PendingStep DEF Working
<1> QED BY <1>2, <1>10, <1>17, <1>18, <1>19, <1>20, <1>21, <1>22, <1>23, <1>24 DEF Inv, Working

(***************************************************************************)
(* Opening                                                                 *)
(***************************************************************************)

\* A thread that opens a client is the only one to have its sections, and does not have csNetwork.
LEMMA OpeningAlone ==
  ASSUME Inv, ~fault, NEW t \in Threads, thread[t].at \in {"opening", "adding", "linking"}
  PROVE  LET c == thread[t].pc IN
         /\ c \in Clients /\ c # None /\ c \notin Lists /\ t \in Openers /\ t \notin EventThreads /\ ~thread[t].locked
         /\ ~Networks(thread[t]) /\ csNetwork.owner # t
         /\ \A u \in Threads \ {t} :
              thread[u].at \in {"opening", "adding", "linking"} \cup Order => thread[u].pc # c
<1> DEFINE c == thread[t].pc
<1>1. Shape(t, thread[t]) /\ Working
  BY Unpack
<1>2. c \in Clients /\ t \in Openers /\ (thread[t].locked => t \in EventThreads)
  BY <1>1 DEF Shape, Role
<1>3. t \notin EventThreads /\ c # None /\ c \notin Lists
  BY <1>2, Distinct
<1>4. ~Networks(thread[t])
  BY DEF Networks
<1>5. csNetwork.owner # t
  BY <1>1, <1>4 DEF Working, NetInv
<1>6. ASSUME NEW u \in Threads \ {t}, thread[u].at \in {"opening", "adding", "linking"} \cup Order, thread[u].pc = c
      PROVE  FALSE
  <2>1. Owns(u, thread[u], c, 0) /\ Owns(t, thread[t], c, 0)
    BY <1>6 DEF Owns, Order
  <2> QED BY <1>1, <1>2, <2>1, OneOwner DEF Working, Channels
<1> QED BY <1>2, <1>3, <1>4, <1>5, <1>6

\* Register keeps the invariant.
LEMMA RegisterKeeps ==
  ASSUME Inv, ~fault, NEW t \in Threads, Register(t)
  PROVE  Inv'
<1> DEFINE c == thread[t].pc
           k == At(thread[t], "adding")
<1>1. thread[t] \in Calls /\ Shape(t, thread[t]) /\ Good(thread[t]) /\ Typed /\ SectionsOK /\ FlagInv /\ Working
      /\ thread \in [Threads -> Calls]
  BY Unpack
<1>2. /\ thread[t].at = "opening" /\ thread' = [thread EXCEPT ![t] = k]
      /\ socket' = [socket EXCEPT ![c] = TRUE]
      /\ UNCHANGED <<lists, flags, serial, recyclePending, csLock, csNetwork, connection, fault>>
      /\ opens' \in 0..MaxOpens
  BY <1>1 DEF Register, GoTo, history, Typed
<1>3. /\ c \in Clients /\ t \in Openers /\ ~thread[t].locked /\ ~Networks(thread[t]) /\ csNetwork.owner # t
  BY <1>2, OpeningAlone
<1>4. k \in Calls /\ k.at = "adding" /\ k.pc = c /\ k.locked = thread[t].locked
  BY <1>1, AtIs DEF Places
<1> HIDE DEF k
<1>5. Shape(t, k)
  BY <1>3, <1>4 DEF Shape, Role, Locking, Unlocking
<1>6. ~Networks(k) /\ \A d \in Clients, ch \in Channels : Owns(t, k, d, ch) <=> Owns(t, thread[t], d, ch)
  BY <1>2, <1>4 DEF Networks, Owns
<1>7. thread'[t] = k /\ \A u \in Threads \ {t} : thread'[u] = thread[u]
  BY <1>1, <1>2
<1>8. SectionsOK' /\ OwnInv' /\ NetInv'
  <2>1. SectionsOK'
    BY <1>1, <1>2 DEF SectionsOK
  <2>2. OwnInv'
    BY <1>1, <1>2, <1>6, <1>7 DEF Working, OwnInv
  <2>3. NetInv'
    BY <1>1, <1>2, <1>3, <1>6, <1>7 DEF Working, NetInv
  <2> QED BY <2>1, <2>2, <2>3
<1>9. flags[c] = {} /\ ~recyclePending[c]
  BY <1>1, <1>2 DEF Good, OpensWell
<1>10. socket' \in [Clients -> BOOLEAN] /\ \A d \in Clients \ {c} : socket'[d] = socket[d]
  BY <1>1, <1>2, <1>3 DEF Typed
<1>11. Typed'
  BY <1>1, <1>2, <1>4, <1>10 DEF Typed, LinksType, lists
<1>12. FlagInv'
  BY <1>1, <1>2, <1>9, <1>10 DEF FlagInv
<1>13. ShapeInv'
  BY <1>1, <1>2, <1>5, ShapeStep DEF Working
<1>14. GoodInv'
  <2>1. Good(thread[t])'
    BY <1>2, <1>4, <1>7, <1>9 DEF Good, OpensWell, ClosesWell, LocksWell, Keeps, Order
  <2>2. ASSUME NEW u \in Threads \ {t}
        PROVE LET h == thread[u]  d == thread[u].pc IN
         /\ h.at \in Order => flags[d] \cap {"CF_ACTIVE", "CF_CLOSED"} # {}
         /\ h.at = "clearing" => "CF_CLOSED" \in flags[d]
    BY <1>1 DEF Working, GoodInv, Good, ClosesWell
  <2> QED BY <1>1, <1>2, <2>1, <2>2, GoodStep DEF Working, lists
<1>15. ClearInv'
  <2>1. k.at \notin Order /\ k.at # "clearing"
    BY <1>4 DEF Order
  <2> QED BY <1>1, <1>2, <2>1, ClearStep DEF Working
<1>16. ListInv'
  <2>1. \A d \in Clients : Linking(d)' <=> Linking(d)
    BY <1>1, <1>2, <1>4, LinkingSame
  <2>2. \A l \in Lists : In(l)' = In(l)
    BY <1>2, <2>1, InSame
  <2> QED BY <1>1, <1>2, <2>2, ListSame DEF Working
<1>17. KnownInv'
  <2>1. \A u \in Threads, d \in Clients : Fresh(thread[u], d) => Fresh(thread'[u], d)
    <3>1. \A d \in Clients : Fresh(thread[t], d) => Fresh(k, d)
      BY <1>4 DEF Fresh
    <3> QED BY <1>1, <1>2, <3>1, FreshSame
  <2>2. Fresh(thread'[t], c)
    BY <1>4, <1>7 DEF Fresh
  <2> SUFFICES ASSUME NEW d \in Clients, flags'[d] \cap CF_STATEFLAGS = {}, socket'[d]
               PROVE  \E u \in Openers : Fresh(thread'[u], d)
    BY DEF KnownInv
  <2>3. CASE d = c
    BY <1>3, <2>2, <2>3
  <2>4. CASE d # c
    BY <1>1, <1>2, <1>10, <2>1, <2>4 DEF Working, KnownInv, Threads
  <2> QED BY <2>3, <2>4
<1>18. PendingHasRecycler'
  <2>1. \A d \in Clients : Held(d)' <=> Held(d)
    BY <1>2 DEF Held
  <2> QED BY <1>1, <1>2, <2>1, PendingStep DEF Working
<1> QED BY <1>2, <1>8, <1>11, <1>12, <1>13, <1>14, <1>15, <1>16, <1>17, <1>18 DEF Inv, Working

\* The first half of AddActive keeps the invariant: the client has its links.
LEMMA AddActiveKeeps ==
  ASSUME Inv, ~fault, NEW t \in Threads, AddActive(t)
  PROVE  Inv'
<1> DEFINE c == thread[t].pc
           k == At(thread[t], "linking")
<1>1. thread[t] \in Calls /\ Shape(t, thread[t]) /\ Good(thread[t]) /\ Typed /\ SectionsOK /\ FlagInv /\ Working
      /\ thread \in [Threads -> Calls]
  BY Unpack
<1>2. /\ thread[t].at = "adding" /\ thread' = [thread EXCEPT ![t] = k]
      /\ flags' = [flags EXCEPT ![c] = @ \cup {"CF_ACTIVE"}]
      /\ me' = [me EXCEPT ![c] = "ActiveClients"]
      /\ next' = [next EXCEPT ![c] = next["ActiveClients"]]
      /\ UNCHANGED <<socket, serial, recyclePending, csLock, csNetwork, connection, fault>>
      /\ opens' \in 0..MaxOpens
  BY <1>1 DEF AddActive, GoTo, history, Typed
<1>3. /\ c \in Clients /\ c \notin Lists /\ t \in Openers /\ ~thread[t].locked
      /\ ~Networks(thread[t]) /\ csNetwork.owner # t
      /\ \A u \in Threads \ {t} :
              thread[u].at \in {"opening", "adding", "linking"} \cup Order => thread[u].pc # c
  BY <1>2, OpeningAlone
<1>4. k \in Calls /\ k.at = "linking" /\ k.pc = c /\ k.locked = thread[t].locked
  BY <1>1, AtIs DEF Places
<1> HIDE DEF k
<1>5. Shape(t, k)
  BY <1>3, <1>4 DEF Shape, Role, Locking, Unlocking
<1>6. ~Networks(k) /\ \A d \in Clients, ch \in Channels : Owns(t, k, d, ch) <=> Owns(t, thread[t], d, ch)
  BY <1>2, <1>4 DEF Networks, Owns
<1>7. thread'[t] = k /\ \A u \in Threads \ {t} : thread'[u] = thread[u]
  BY <1>1, <1>2
<1>8. SectionsOK' /\ OwnInv' /\ NetInv'
  <2>1. SectionsOK'
    BY <1>1, <1>2 DEF SectionsOK
  <2>2. OwnInv'
    BY <1>1, <1>2, <1>6, <1>7 DEF Working, OwnInv
  <2>3. NetInv'
    BY <1>1, <1>2, <1>3, <1>6, <1>7 DEF Working, NetInv
  <2> QED BY <2>1, <2>2, <2>3
<1>9. flags[c] = {} /\ ~recyclePending[c]
  BY <1>1, <1>2 DEF Good, OpensWell
<1>10. /\ flags' \in [Clients -> SUBSET (CF_STATEFLAGS \cup {"CF_CLOSING"})]
       /\ flags'[c] = {"CF_ACTIVE"} /\ \A d \in Clients \ {c} : flags'[d] = flags[d]
  BY <1>1, <1>2, <1>3, <1>9 DEF Typed, CF_STATEFLAGS
<1>11. /\ LinksType(next', me') /\ me'[c] = "ActiveClients" /\ next'[c] = next'["ActiveClients"]
       /\ \A x \in Lists : next'[x] = next[x]
       /\ \A x \in Clients \ {c} : next'[x] = next[x] /\ me'[x] = me[x]
  <2>1. LinksType(next, me) /\ "ActiveClients" \in Lists
    BY <1>1 DEF Typed, Lists
  <2> HIDE DEF c
  <2> QED BY <1>2, <1>3, <2>1 DEF LinksType
<1>12. Typed'
  BY <1>1, <1>2, <1>4, <1>10, <1>11 DEF Typed
<1>13. FlagInv'
  <2> SUFFICES ASSUME NEW d \in Clients
               PROVE  /\ \A f, g \in flags'[d] \cap CF_STATEFLAGS : f = g
                      /\ "CF_CLOSING" \in flags'[d] => flags'[d] \cap {"CF_ACTIVE", "CF_CLOSED"} # {}
                      /\ recyclePending'[d] => "CF_CLOSED" \in flags'[d]
                      /\ "CF_AVAILABLE" \in flags'[d] => ~socket'[d]
    BY DEF FlagInv
  <2>1. CASE d = c
    BY <1>2, <1>9, <1>10, <2>1
  <2>2. CASE d # c
    BY <1>1, <1>2, <1>10, <2>2 DEF FlagInv
  <2> QED BY <2>1, <2>2
<1>14. ShapeInv'
  BY <1>1, <1>2, <1>5, ShapeStep DEF Working
<1> HIDE DEF c
<1>15. GoodInv'
  <2>1. Good(thread[t])'
    BY <1>2, <1>4, <1>7, <1>9, <1>10, <1>11 DEF Good, OpensWell, ClosesWell, LocksWell, Keeps, Order
  <2>2. ASSUME NEW u \in Threads \ {t}
        PROVE LET h == thread[u]  d == thread[u].pc IN
         /\ h.at \in {"opening", "adding", "linking"} =>
              flags'[d] = flags[d] /\ (~recyclePending[d] => ~recyclePending'[d])
         /\ h.at = "linking" =>
              me'[d] = me[d] /\ next'[d] = next[d] /\ next'["ActiveClients"] = next["ActiveClients"]
         /\ h.at \in Order => flags'[d] \cap {"CF_ACTIVE", "CF_CLOSED"} # {}
         /\ h.at = "clearing" => "CF_CLOSED" \in flags'[d]
         /\ Keeps(h) => /\ serial'[d] = serial[d] /\ connection'[d] = connection[d]
                        /\ "CF_ACTIVE" \in flags[d] => "CF_ACTIVE" \in flags'[d]
    <3> DEFINE h == thread[u]
               d == thread[u].pc
    <3>1. Good(h) /\ Shape(u, h)
      BY <1>1 DEF Working, GoodInv, ShapeInv
    <3>2. h.at \in {"opening", "adding", "linking"} => d \in Clients /\ d # c
      BY <1>1, <1>3, OpenedIs
    <3>3. Keeps(h) \/ h.at \in Order \cup {"clearing"} => d \in Clients
      BY <3>1 DEF Shape, Role, Keeps, Order
    <3>4. h.at \in Order => flags[d] \cap {"CF_ACTIVE", "CF_CLOSED"} # {}
      BY <3>1 DEF Good, ClosesWell
    <3>5. h.at = "clearing" => "CF_CLOSED" \in flags[d] /\ d # c
      BY <1>9, <3>1 DEF Good, ClosesWell
    <3> HIDE DEF h, d
    <3>6. d \in Clients /\ d # c => flags'[d] = flags[d] /\ next'[d] = next[d] /\ me'[d] = me[d]
      BY <1>10, <1>11
    <3>7. d = c => "CF_ACTIVE" \in flags'[d]
      BY <1>10
    <3>8. UNCHANGED <<recyclePending, connection, serial>> /\ next'["ActiveClients"] = next["ActiveClients"]
      BY <1>2, <1>11 DEF Lists
    <3> QED BY <3>2, <3>3, <3>4, <3>5, <3>6, <3>7, <3>8 DEF h, d
  <2> QED BY <1>1, <1>2, <2>1, <2>2, GoodStep DEF Working
<1>16. ClearInv'
  <2>1. k.at \notin Order /\ k.at # "clearing"
    BY <1>4 DEF Order
  <2> QED BY <1>1, <1>2, <2>1, ClearStep DEF Working
<1>17. ListInv'
  <2>1. PICK e \in Clients : e = c
    BY <1>3
  <2>2. Linking(e)' /\ \A d \in Clients \ {e} : Linking(d)' <=> Linking(d)
    <3>1. Linking(e)'
      BY <1>3, <1>4, <1>7, <2>1 DEF Linking
    <3>2. ASSUME NEW d \in Clients \ {e}, NEW u \in Openers
          PROVE  thread'[u].at = "linking" /\ thread'[u].pc = d <=> thread[u].at = "linking" /\ thread[u].pc = d
      <4>1. u \in Threads
        BY DEF Threads
      <4>2. CASE u = t
        BY <1>2, <1>4, <1>7, <2>1, <4>2
      <4>3. CASE u # t
        BY <1>7, <4>1, <4>3
      <4> QED BY <4>2, <4>3
    <3> QED BY <3>1, <3>2 DEF Linking
  <2>3. \A l \in Lists : In(l)' = In(l) /\ e \notin In(l)
    BY <1>9, <1>10, <2>1, <2>2 DEF In
  <2> DEFINE L == [l \in Lists |-> In(l)]
  <2>4. L' = L /\ InPlace(next, me, L)
    BY <1>1, <2>3 DEF Working, ListInv
  <2>5. \A l \in Lists : next'[l] = next[l] /\ \A d \in L[l] : next'[d] = next[d] /\ me'[d] = me[d]
    <3>1. \A l \in Lists : L[l] = In(l) /\ In(l) \subseteq Clients
      BY DEF In
    <3> HIDE DEF L
    <3> QED BY <1>11, <2>1, <2>3, <3>1
  <2>6. InPlace(next', me', L)
    <3> HIDE DEF L
    <3> QED BY <2>4, <2>5, SamePlace
  <2> QED BY <2>4, <2>6 DEF ListInv
<1>18. KnownInv'
  <2>1. \A u \in Threads, d \in Clients : Fresh(thread[u], d) => Fresh(thread'[u], d)
    <3>1. \A d \in Clients : Fresh(thread[t], d) => Fresh(k, d)
      BY <1>4 DEF Fresh, c
    <3> QED BY <1>1, <1>2, <3>1, FreshSame
  <2>2. flags'[c] \cap CF_STATEFLAGS # {}
    BY <1>10 DEF CF_STATEFLAGS
  <2> QED BY <1>1, <1>2, <1>10, <2>1, <2>2 DEF Working, KnownInv, Threads
<1>19. PendingHasRecycler'
  <2>1. \A d \in Clients : Held(d)' <=> Held(d)
    BY <1>2 DEF Held
  <2> QED BY <1>1, <1>2, <2>1, PendingStep DEF Working
<1> QED BY <1>2, <1>8, <1>12, <1>13, <1>14, <1>15, <1>16, <1>17, <1>18, <1>19 DEF Inv, Working

\* The second half keeps it as well: the list has not changed meanwhile, so the client becomes its
\* first.
LEMMA LinkActiveKeeps ==
  ASSUME Inv, Orderly, ~fault, NEW t \in Threads, LinkActive(t)
  PROVE  Inv'
<1> DEFINE c == thread[t].pc
           k == ToUnlock(thread[t], Both, "idle")
<1>1. thread[t] \in Calls /\ Shape(t, thread[t]) /\ Good(thread[t]) /\ Typed /\ SectionsOK /\ FlagInv /\ Working
      /\ thread \in [Threads -> Calls]
  BY Unpack
<1>2. thread[t].at = "linking"
  BY DEF LinkActive
<1>3. /\ c \in Clients /\ c # None /\ c \notin Lists /\ t \in Openers /\ t \notin EventThreads /\ ~thread[t].locked
      /\ ~Networks(thread[t]) /\ csNetwork.owner # t
      /\ \A u \in Threads \ {t} :
              thread[u].at \in {"opening", "adding", "linking"} \cup Order => thread[u].pc # c
  BY <1>2, OpeningAlone
<1>4. /\ flags[c] = {"CF_ACTIVE"} /\ ~recyclePending[c]
      /\ me[c] = "ActiveClients" /\ next[c] = next["ActiveClients"]
  BY <1>1, <1>2 DEF Good, OpensWell
<1>5. /\ thread' = [thread EXCEPT ![t] = k]
      /\ next' = [next EXCEPT !["ActiveClients"] = c]
      /\ me' = IF next[c] = None THEN me ELSE [me EXCEPT ![next[c]] = c]
      /\ UNCHANGED <<state, csLock, csNetwork, connection, fault>> /\ opens' \in 0..MaxOpens
  BY <1>1, <1>4 DEF LinkActive, history, Typed, Both
<1>6. k \in Calls /\ k.at = "unlocking" /\ k.todo = Both /\ k.ok = "idle" /\ k.pc = c /\ k.locked = thread[t].locked
  <2>1. Both \in Seq(Channels) /\ "idle" \in Places
    BY WordsAre DEF Places
  <2> QED BY <1>1, <2>1, ToUnlockIs
<1> HIDE DEF k
<1>7. Shape(t, k)
  BY <1>3, <1>6 DEF Shape, Role, Locking, Unlocking, Onwards
<1>8. ~Networks(k) /\ \A d \in Clients, ch \in Channels : Owns(t, k, d, ch) <=> Owns(t, thread[t], d, ch)
  <2>1. ~Networks(k)
    BY <1>6 DEF Networks
  <2>2. \A d \in Clients, ch \in Channels : Owns(t, k, d, ch) <=> d = c
    BY <1>3, <1>6 DEF Owns
  <2>3. \A d \in Clients, ch \in Channels : Owns(t, thread[t], d, ch) <=> d = c
    BY <1>2 DEF Owns
  <2> QED BY <2>1, <2>2, <2>3
<1>9. thread'[t] = k /\ \A u \in Threads \ {t} : thread'[u] = thread[u]
  BY <1>1, <1>5
<1>10. SectionsOK' /\ OwnInv' /\ NetInv'
  <2>1. SectionsOK'
    BY <1>1, <1>5 DEF SectionsOK
  <2>2. OwnInv'
    BY <1>1, <1>5, <1>8, <1>9 DEF Working, OwnInv
  <2>3. NetInv'
    BY <1>1, <1>3, <1>5, <1>8, <1>9 DEF Working, NetInv
  <2> QED BY <2>1, <2>2, <2>3
<1>11. \A u \in Threads \ {t} : thread[u].at # "linking"
  BY <1>2, <1>3 DEF Orderly, UndisturbedOpen
<1>12. "ActiveClients" \in Lists /\ Flag["ActiveClients"] = "CF_ACTIVE"
       /\ \A l \in Lists \ {"ActiveClients"} : Flag[l] # "CF_ACTIVE"
  BY FlagIs DEF Lists
\* The lists as sets of clients, before and after.
<1>13. PICK e \in Clients : e = c
  BY <1>3
<1>14. Linking(e) /\ ~Linking(e)' /\ \A d \in Clients \ {e} : ~Linking(d) /\ ~Linking(d)'
  <2>1. Linking(e)
    BY <1>2, <1>3, <1>13 DEF Linking
  <2>2. \A u \in Openers : thread'[u].at # "linking"
    <3> SUFFICES ASSUME NEW u \in Openers PROVE thread'[u].at # "linking"
      OBVIOUS
    <3>1. u \in Threads
      BY DEF Threads
    <3>2. CASE u = t
      BY <1>6, <1>9, <3>2
    <3>3. CASE u # t
      BY <1>9, <1>11, <3>1, <3>3
    <3> QED BY <3>2, <3>3
  <2>3. \A u \in Openers : thread[u].at = "linking" => thread[u].pc = e
    BY <1>11, <1>13 DEF Threads
  <2> QED BY <2>1, <2>2, <2>3 DEF Linking
<1>15. /\ In("ActiveClients")' = In("ActiveClients") \cup {e}
       /\ \A l \in Lists \ {"ActiveClients"} : In(l)' = In(l)
       /\ \A l \in Lists : e \notin In(l) /\ In(l) \subseteq Clients
  <2>1. flags' = flags /\ flags[e] = {"CF_ACTIVE"}
    BY <1>4, <1>5, <1>13 DEF state
  <2> QED BY <1>12, <1>14, <2>1 DEF In
<1> DEFINE P == [l \in Lists |-> In(l)]
<1>16. InPlace(next, me, P) /\ \A l \in Lists : P[l] = In(l)
  BY <1>1 DEF Working, ListInv
<1>17. P' = [P EXCEPT !["ActiveClients"] = @ \cup {e}]
  BY <1>12, <1>15
<1> HIDE DEF P
<1>18. LinksType(next, me) /\ next[c] \in Clients \cup {None} /\ next[c] # c /\ next[c] # "ActiveClients"
  <2>1. LinksType(next, me)
    BY <1>1 DEF Typed
  <2>2. next["ActiveClients"] = None \/ next["ActiveClients"] \in In("ActiveClients")
    BY <1>12, <1>16, PlaceFacts
  <2>3. next[c] \in Clients \cup {None} /\ next[c] # c
    BY <1>3, <1>4, <1>12, <1>13, <1>15, <2>2
  <2> QED BY <1>12, <2>1, <2>3, Distinct
<1> HIDE DEF c
<1>19. LinksType(next', me') /\ AddedIn(next, me, "ActiveClients", e, next', me')
  <2>1. next'["ActiveClients"] = c /\ \A x \in (Lists \cup Clients) \ {"ActiveClients"} : next'[x] = next[x]
    BY <1>5, <1>12, <1>18 DEF LinksType
  <2>2. next[c] # None => me'[next[c]] = c
    BY <1>5, <1>18 DEF LinksType
  <2>3. \A x \in Clients \ {next[c]} : me'[x] = me[x]
    BY <1>5, <1>18 DEF LinksType
  <2>4. next' \in [Lists \cup Clients -> Clients \cup {None}]
    BY <1>3, <1>5, <1>12, <1>18 DEF LinksType
  <2>5. me' \in [Clients -> Lists \cup Clients]
    BY <1>3, <1>5, <1>18 DEF LinksType
  <2>6. next'[c] = next["ActiveClients"] /\ me'[c] = "ActiveClients"
    BY <1>3, <1>4, <1>12, <1>18, <2>1, <2>3
  <2> QED BY <1>4, <1>13, <2>1, <2>2, <2>3, <2>4, <2>5, <2>6 DEF LinksType, AddedIn
<1>20. ListInv'
  <2>1. \A l \in Lists : e \notin P[l]
    BY <1>15, <1>16
  <2>2. InPlace(next', me', [P EXCEPT !["ActiveClients"] = @ \cup {e}])
    BY <1>12, <1>16, <1>19, <2>1, AddPlace
  <2> QED BY <1>17, <2>2 DEF ListInv, P
<1>21. Typed'
  BY <1>1, <1>5, <1>6, <1>19 DEF Typed, state
<1>22. FlagInv'
  BY <1>1, <1>5 DEF FlagInv, state
<1>23. ShapeInv'
  BY <1>1, <1>5, <1>7, ShapeStep DEF Working
<1>24. GoodInv'
  <2>1. Good(thread[t])'
    BY <1>6, <1>9 DEF Good, OpensWell, ClosesWell, LocksWell, Keeps, Order
  <2>2. ASSUME NEW u \in Threads \ {t}
        PROVE LET h == thread[u]  d == thread[u].pc IN
         /\ h.at # "linking"
         /\ h.at \in Order => flags'[d] \cap {"CF_ACTIVE", "CF_CLOSED"} # {}
         /\ h.at = "clearing" => "CF_CLOSED" \in flags'[d]
    <3>1. flags' = flags
      BY <1>5 DEF state
    <3> QED BY <1>1, <1>11, <3>1 DEF Working, GoodInv, Good, ClosesWell
  <2>3. UNCHANGED <<flags, recyclePending, serial, connection>>
    BY <1>5 DEF state
  <2> QED BY <1>1, <1>5, <2>1, <2>2, <2>3, GoodStep DEF Working
<1>25. ClearInv'
  <2>1. k.at \notin Order /\ k.at # "clearing"
    BY <1>6 DEF Order
  <2> QED BY <1>1, <1>5, <2>1, ClearStep DEF Working
<1>26. KnownInv'
  <2> SUFFICES ASSUME NEW d \in Clients, flags'[d] \cap CF_STATEFLAGS = {}, socket'[d]
               PROVE  \E u \in Openers : Fresh(thread'[u], d)
    BY DEF KnownInv
  <2>1. flags' = flags /\ socket' = socket
    BY <1>5 DEF state
  <2>2. d # c
    BY <1>4, <2>1 DEF CF_STATEFLAGS
  <2>3. PICK u \in Openers : Fresh(thread[u], d)
    BY <1>1, <2>1 DEF Working, KnownInv
  <2>4. u # t /\ u \in Threads
    BY <2>2, <2>3 DEF Fresh, Threads, c
  <2> QED BY <1>9, <2>3, <2>4
<1>27. PendingHasRecycler'
  <2>1. (\A d \in Clients : Held(d)' <=> Held(d)) /\ recyclePending' = recyclePending
    BY <1>5 DEF Held, state
  <2> QED BY <1>1, <1>2, <1>5, <2>1, PendingStep DEF Working
<1> QED BY <1>5, <1>10, <1>20, <1>21, <1>22, <1>23, <1>24, <1>25, <1>26, <1>27 DEF Inv, Working

\* The first client of the available ones is one that is available.
LEMMA FirstIs ==
  ASSUME ListInv, FlagInv, NEW c \in Clients \cup {None}, c = next["AvailableClients"], c # None
  PROVE  /\ c \in Clients /\ "CF_AVAILABLE" \in flags[c] /\ ~Linking(c)
         /\ flags[c] \cap {"CF_ACTIVE", "CF_CLOSED", "CF_CLOSING"} = {}
         /\ ~socket[c] /\ ~recyclePending[c]
<1>1. "AvailableClients" \in Lists
  BY DEF Lists
<1>2. next["AvailableClients"] = None \/ next["AvailableClients"] \in In("AvailableClients")
  BY <1>1, PlaceFacts DEF ListInv
<1>3. c \in Clients /\ "CF_AVAILABLE" \in flags[c] /\ ~Linking(c)
  BY <1>2, FlagIs DEF In
<1>4. "CF_ACTIVE" \notin flags[c] /\ "CF_CLOSED" \notin flags[c]
  BY <1>3 DEF FlagInv, CF_STATEFLAGS
<1> QED BY <1>3, <1>4 DEF FlagInv

\* The lists after the first available client has been taken out, its state flag gone.
LEMMA GrabStep ==
  ASSUME Typed, FlagInv, ListInv, NEW c \in Clients \cup {None}, c = next["AvailableClients"], c # None,
         next' = Grabbed(c).next, me' = Grabbed(c).me,
         flags'[c] \cap CF_STATEFLAGS = {},
         \A d \in Clients \ {c} : flags'[d] = flags[d],
         \A d \in Clients : Linking(d)' <=> Linking(d)
  PROVE  /\ LinksType(next', me') /\ ListInv'
         /\ next'["ActiveClients"] = next["ActiveClients"]
         /\ \A d \in Clients : Linking(d) => next'[d] = next[d] /\ me'[d] = me[d]
<1> DEFINE P == [h \in Lists |-> In(h)]
           a == "AvailableClients"
<1>1. LinksType(next, me) /\ InPlace(next, me, P) /\ \A h \in Lists : P[h] = In(h) /\ In(h) \subseteq Clients
  BY DEF Typed, ListInv, In
<1>2. c \in Clients /\ "CF_AVAILABLE" \in flags[c] /\ ~Linking(c)
  BY FirstIs
<1>3. a \in Lists /\ Flag[a] = "CF_AVAILABLE" /\ "ActiveClients" \in Lists /\ a # "ActiveClients"
  BY FlagIs DEF Lists
<1>4. c \in P[a] /\ \A h \in Lists \ {a} : c \notin P[h]
  <2>1. c \in In(a) /\ \A h \in Lists \ {a} : c \notin In(h)
    BY <1>2, <1>3, PlaceOf
  <2> QED BY <1>1, <1>3, <2>1
<1>5. P' = [P EXCEPT ![a] = @ \ {c}]
  <2>1. \A h \in Lists, d \in Clients \ {c} : d \in In(h)' <=> d \in In(h)
    BY DEF In
  <2>2. \A h \in Lists : c \notin In(h)'
    BY FlagIs DEF In
  <2>3. \A h \in Lists : In(h) \subseteq Clients /\ In(h)' \subseteq Clients
    BY DEF In
  <2>4. \A h \in Lists : In(h)' = In(h) \ {c}
    BY <2>1, <2>2, <2>3
  <2>5. \A h \in Lists \ {a} : In(h)' = In(h)
    BY <1>1, <1>4, <2>4
  <2> QED BY <1>3, <2>4, <2>5
<1>6. \A d \in Clients : Linking(d) => \A h \in Lists : d \notin P[h]
  BY DEF In
<1> HIDE DEF P, a
<1>7. /\ (next[c] = None \/ next[c] \in P[a]) /\ (me[c] = a \/ me[c] \in P[a])
      /\ P[a] \subseteq Clients
  BY <1>1, <1>3, <1>4, PlaceFacts
<1>8. LinksType(next', me') /\ GrabbedIn(next, me, c, next', me')
  BY <1>1, <1>2, <1>3, <1>7, Distinct DEF LinksType, GrabbedIn, Grabbed
<1>9. InPlace(next', me', [P EXCEPT ![a] = @ \ {c}])
  BY <1>1, <1>3, <1>4, <1>8, GrabPlace
<1>10. next'["ActiveClients"] = next["ActiveClients"]
  BY <1>3, <1>7, <1>8, Distinct DEF GrabbedIn
<1>11. ASSUME NEW d \in Clients, Linking(d) PROVE next'[d] = next[d] /\ me'[d] = me[d]
  BY <1>3, <1>6, <1>7, <1>8, <1>11, Distinct DEF GrabbedIn
<1>12. ListInv'
  BY <1>5, <1>9 DEF ListInv, P
<1> QED BY <1>8, <1>10, <1>11, <1>12

\* A client that is taken for nothing: GetLost keeps the invariant, the client in no list.
LEMMA GetLostKeeps ==
  ASSUME Inv, ~fault, NEW t \in Threads, GetLost(t)
  PROVE  Inv'
<1>1. Typed /\ SectionsOK /\ FlagInv /\ Working /\ thread \in [Threads -> Calls]
  BY Unpack
<1>2. PICK c \in Clients \cup {None} : c = next["AvailableClients"]
  BY <1>1 DEF Typed, LinksType, Lists
<1>3. /\ c # None /\ next' = Grabbed(c).next /\ me' = Grabbed(c).me
      /\ flags' = [flags EXCEPT ![c] = @ \ CF_STATEFLAGS]
      /\ UNCHANGED <<socket, serial, recyclePending, csLock, csNetwork, thread, connection, fault>>
      /\ opens' \in 0..MaxOpens /\ thread[t].at = "getting"
  BY <1>1, <1>2 DEF GetLost, history, Typed
<1>4. /\ c \in Clients /\ "CF_AVAILABLE" \in flags[c] /\ ~Linking(c)
      /\ flags[c] \cap {"CF_ACTIVE", "CF_CLOSED", "CF_CLOSING"} = {}
      /\ ~socket[c] /\ ~recyclePending[c]
  BY <1>1, <1>2, <1>3, FirstIs DEF Working
<1>5. /\ flags' \in [Clients -> SUBSET (CF_STATEFLAGS \cup {"CF_CLOSING"})]
      /\ flags'[c] = flags[c] \ CF_STATEFLAGS /\ \A d \in Clients \ {c} : flags'[d] = flags[d]
  BY <1>1, <1>3, <1>4 DEF Typed
<1>6. flags'[c] = {}
  <2>1. flags[c] \subseteq CF_STATEFLAGS \cup {"CF_CLOSING"} /\ "CF_CLOSING" \notin flags[c]
    BY <1>1, <1>4 DEF Typed
  <2> QED BY <1>5, <2>1
<1>7. \A d \in Clients : Linking(d)' <=> Linking(d)
  BY <1>3 DEF Linking
<1>8. /\ LinksType(next', me') /\ ListInv'
      /\ next'["ActiveClients"] = next["ActiveClients"]
      /\ \A d \in Clients : Linking(d) => next'[d] = next[d] /\ me'[d] = me[d]
  <2>1. flags'[c] \cap CF_STATEFLAGS = {}
    BY <1>6
  <2> QED BY <1>1, <1>2, <1>3, <1>5, <1>7, <2>1, GrabStep DEF Working
<1>9. Typed' /\ SectionsOK'
  BY <1>1, <1>3, <1>5, <1>8 DEF Typed, SectionsOK
<1>10. FlagInv'
  <2> SUFFICES ASSUME NEW d \in Clients
               PROVE  /\ \A f, g \in flags'[d] \cap CF_STATEFLAGS : f = g
                      /\ "CF_CLOSING" \in flags'[d] => flags'[d] \cap {"CF_ACTIVE", "CF_CLOSED"} # {}
                      /\ recyclePending'[d] => "CF_CLOSED" \in flags'[d]
                      /\ "CF_AVAILABLE" \in flags'[d] => ~socket'[d]
    BY DEF FlagInv
  <2>1. CASE d = c
    BY <1>3, <1>4, <1>6, <2>1
  <2>2. CASE d # c
    BY <1>1, <1>3, <1>5, <2>2 DEF FlagInv
  <2> QED BY <2>1, <2>2
<1>11. ShapeInv' /\ OwnInv' /\ NetInv' /\ ClearInv'
  BY <1>1, <1>3 DEF Working, ShapeInv, OwnInv, NetInv, ClearInv
<1>12. GoodInv'
  <2>1. Good(thread[t])'
    BY <1>3 DEF Good, OpensWell, ClosesWell, LocksWell, Keeps, Order
  <2>2. ASSUME NEW u \in Threads \ {t}
        PROVE LET h == thread[u]  d == thread[u].pc IN
         /\ h.at \in {"opening", "adding", "linking"} =>
              flags'[d] = flags[d] /\ (~recyclePending[d] => ~recyclePending'[d])
         /\ h.at = "linking" =>
              me'[d] = me[d] /\ next'[d] = next[d] /\ next'["ActiveClients"] = next["ActiveClients"]
         /\ h.at \in Order => flags'[d] \cap {"CF_ACTIVE", "CF_CLOSED"} # {}
         /\ h.at = "clearing" => "CF_CLOSED" \in flags'[d]
         /\ Keeps(h) => \/ /\ serial'[d] = serial[d] /\ connection'[d] = connection[d]
                           /\ "CF_ACTIVE" \in flags[d] => "CF_ACTIVE" \in flags'[d]
    <3> DEFINE h == thread[u]
               d == thread[u].pc
    <3>1. Good(h) /\ Shape(u, h)
      BY <1>1 DEF Working, GoodInv, ShapeInv
    <3>2. h.at \in {"opening", "adding", "linking"} => d \in Clients /\ d # c
      BY <1>1, <1>4, OpenedIs
    <3>3. Keeps(h) \/ h.at \in Order \cup {"clearing"} => d \in Clients
      BY <3>1 DEF Shape, Role, Keeps, Order
    <3>4. h.at \in Order => flags[d] \cap {"CF_ACTIVE", "CF_CLOSED"} # {}
      BY <3>1 DEF Good, ClosesWell
    <3>5. h.at = "clearing" => "CF_CLOSED" \in flags[d]
      BY <3>1 DEF Good, ClosesWell
    <3>6. h.at = "linking" => d \in Clients /\ Linking(d)
      BY <3>1, <3>2 DEF Shape, Role, Linking
    <3> HIDE DEF h, d
    <3>7. d \in Clients /\ d # c => flags'[d] = flags[d]
      BY <1>5
    <3>8. d = c => "CF_ACTIVE" \notin flags[d] /\ "CF_CLOSED" \notin flags[d] /\ flags[d] \cap {"CF_ACTIVE", "CF_CLOSED"} = {}
      BY <1>4
    <3>9. UNCHANGED <<recyclePending, connection, serial>>
      BY <1>3
    <3> QED BY <1>8, <3>2, <3>3, <3>4, <3>5, <3>6, <3>7, <3>8, <3>9 DEF h, d
  <2>3. thread' = [thread EXCEPT ![t] = thread[t]]
    BY <1>1, <1>3
  <2> QED BY <1>1, <2>1, <2>2, <2>3, GoodStep DEF Working
<1>13. KnownInv'
  <2> SUFFICES ASSUME NEW d \in Clients, flags'[d] \cap CF_STATEFLAGS = {}, socket'[d]
               PROVE  \E u \in Openers : Fresh(thread'[u], d)
    BY DEF KnownInv
  <2>1. d # c /\ socket[d]
    BY <1>3, <1>4
  <2> QED BY <1>1, <1>3, <1>5, <2>1 DEF Working, KnownInv
<1>14. PendingHasRecycler'
  BY <1>1, <1>3 DEF Working, PendingHasRecycler, Held
<1> QED BY <1>3, <1>8, <1>9, <1>10, <1>11, <1>12, <1>13, <1>14 DEF Inv, Working

\* A client that is taken, with both sections: Get keeps the invariant.
LEMMA GetKeeps ==
  ASSUME Inv, ~fault, NEW t \in Threads, Get(t)
  PROVE  Inv'
<1>1. /\ Typed /\ SectionsOK /\ FlagInv /\ Working /\ thread \in [Threads -> Calls]
      /\ thread[t] \in Calls /\ Shape(t, thread[t])
  BY Unpack
<1>2. PICK c \in Clients \cup {None} : c = next["AvailableClients"]
  BY <1>1 DEF Typed, LinksType, Lists
<1> DEFINE k == [thread[t] EXCEPT !.at = "opening", !.pc = c]
<1>3. /\ c # None /\ next' = Grabbed(c).next /\ me' = Grabbed(c).me
      /\ flags' = [flags EXCEPT ![c] = {}]
      /\ recyclePending' = [recyclePending EXCEPT ![c] = FALSE]
      /\ csLock' = [csLock EXCEPT ![c] = [ch \in Channels |-> Entered(@[ch], t)]]
      /\ connection' = [connection EXCEPT ![c] = thread[t].connection]
      /\ UNCHANGED <<socket, serial, csNetwork, fault>>
      /\ opens' \in 0..MaxOpens /\ thread[t].at = "getting"
      /\ \A ch \in Channels : Free(csLock[c][ch], t)
  BY <1>1, <1>2 DEF Get, Typed
<1>4. thread' = [thread EXCEPT ![t] = k]
  BY <1>1, <1>2 DEF Get
<1>5. /\ c \in Clients /\ "CF_AVAILABLE" \in flags[c] /\ ~Linking(c)
      /\ flags[c] \cap {"CF_ACTIVE", "CF_CLOSED", "CF_CLOSING"} = {}
      /\ ~socket[c] /\ ~recyclePending[c]
  BY <1>1, <1>2, <1>3, FirstIs DEF Working
<1>6. t \in Openers /\ ~thread[t].locked /\ thread[t].connection \in 0..MaxOpens
  BY <1>1, <1>3 DEF Shape, Role, Calls
<1>7. k \in Calls /\ k.at = "opening" /\ k.pc = c /\ ~k.locked
  BY <1>1, <1>5, <1>6 DEF Calls, Places
<1> HIDE DEF k
<1>8. Shape(t, k)
  BY <1>5, <1>6, <1>7 DEF Shape, Role, Locking, Unlocking
<1>9. /\ ~Networks(k) /\ ~Networks(thread[t])
      /\ \A d \in Clients, ch \in Channels : Owns(t, k, d, ch) <=> d = c
      /\ \A d \in Clients, ch \in Channels : ~Owns(t, thread[t], d, ch)
  BY <1>3, <1>7 DEF Networks, Owns
<1>10. thread'[t] = k /\ \A u \in Threads \ {t} : thread'[u] = thread[u]
  BY <1>1, <1>4
<1>11. /\ csLock' \in [Clients -> [Channels -> Sections]]
       /\ \A ch \in Channels : csLock[c][ch].owner = None /\ csLock'[c][ch] = [owner |-> t, locks |-> 1]
       /\ \A d \in Clients \ {c} : csLock'[d] = csLock[d]
  <2>1. ASSUME NEW ch \in Channels PROVE csLock[c][ch].owner = None /\ csLock[c][ch].locks = 0
    <3>1. csLock[c][ch].owner # t
      BY <1>1, <1>5, <1>9 DEF Working, OwnInv
    <3>2. csLock[c][ch].owner = None
      BY <1>3, <3>1 DEF Free
    <3>3. csLock[c][ch].locks = 0
      BY <1>1, <1>5, <3>2 DEF SectionsOK
    <3> QED BY <3>2, <3>3
  <2>2. csLock \in [Clients -> [Channels -> Sections]]
    BY <1>1 DEF Typed
  <2>3. csLock'[c] = [ch \in Channels |-> Entered(csLock[c][ch], t)] /\ \A d \in Clients \ {c} : csLock'[d] = csLock[d]
    BY <1>3, <1>5, <2>2
  <2>4. \A ch \in Channels : csLock'[c][ch] = [owner |-> t, locks |-> 1]
    BY <2>1, <2>3 DEF Entered
  <2>5. csLock'[c] \in [Channels -> Sections]
    <3>1. [owner |-> t, locks |-> 1] \in Sections
      BY DEF Sections
    <3>2. csLock'[c] = [ch \in Channels |-> [owner |-> t, locks |-> 1]]
      BY <2>1, <2>3 DEF Entered
    <3> QED BY <3>1, <3>2
  <2>6. csLock' = [csLock EXCEPT ![c] = csLock'[c]]
    BY <1>3, <1>5, <2>2
  <2>7. csLock' \in [Clients -> [Channels -> Sections]]
    <3> DEFINE v == csLock'[c]
    <3>1. v \in [Channels -> Sections] /\ csLock' = [csLock EXCEPT ![c] = v]
      BY <2>5, <2>6
    <3> HIDE DEF v
    <3> QED BY <2>2, <3>1
  <2> QED BY <2>1, <2>3, <2>4, <2>7
<1>12. SectionsOK'
  <2>1. csNetwork'.owner = None <=> csNetwork'.locks = 0
    BY <1>1, <1>3 DEF SectionsOK
  <2>2. ASSUME NEW d \in Clients, NEW ch \in Channels
        PROVE  csLock'[d][ch].owner = None <=> csLock'[d][ch].locks = 0
    <3>1. CASE d = c
      BY <1>11, <3>1, Distinct
    <3>2. CASE d # c
      BY <1>1, <1>11, <3>2 DEF SectionsOK
    <3> QED BY <3>1, <3>2
  <2> QED BY <2>1, <2>2 DEF SectionsOK
<1>13. OwnInv'
  <2> SUFFICES ASSUME NEW d \in Clients, NEW ch \in Channels
               PROVE  /\ csLock'[d][ch].locks \in {0, 1}
                      /\ \A u \in Threads : csLock'[d][ch].owner = u <=> Owns(u, thread'[u], d, ch)
    BY DEF OwnInv
  <2>1. CASE d = c
    <3>1. csLock'[d][ch].locks \in {0, 1} /\ csLock'[d][ch].owner = t
      BY <1>11, <2>1
    <3>2. ASSUME NEW u \in Threads PROVE csLock'[d][ch].owner = u <=> Owns(u, thread'[u], d, ch)
      <4>1. CASE u = t
        BY <1>9, <1>10, <2>1, <3>1, <4>1
      <4>2. CASE u # t
        <5>1. ~Owns(u, thread[u], d, ch)
          BY <1>1, <1>11, <2>1, Distinct DEF Working, OwnInv
        <5> QED BY <1>10, <3>1, <4>2, <5>1
      <4> QED BY <4>1, <4>2
    <3> QED BY <3>1, <3>2
  <2>2. CASE d # c
    <3>1. csLock'[d][ch] = csLock[d][ch]
      BY <1>11, <2>2
    <3>2. \A u \in Threads : Owns(u, thread'[u], d, ch) <=> Owns(u, thread[u], d, ch)
      BY <1>9, <1>10, <2>2
    <3> QED BY <1>1, <3>1, <3>2 DEF Working, OwnInv
  <2> QED BY <2>1, <2>2
<1>14. NetInv'
  <2>1. csNetwork.owner # t
    BY <1>1, <1>3, <1>9 DEF Working, NetInv
  <2> QED BY <1>1, <1>3, <1>9, <1>10, <2>1 DEF Working, NetInv
<1>15. /\ flags' \in [Clients -> SUBSET (CF_STATEFLAGS \cup {"CF_CLOSING"})]
       /\ flags'[c] = {} /\ \A d \in Clients \ {c} : flags'[d] = flags[d]
       /\ recyclePending' \in [Clients -> BOOLEAN]
       /\ ~recyclePending'[c] /\ \A d \in Clients \ {c} : recyclePending'[d] = recyclePending[d]
       /\ connection' \in [Clients -> 0..MaxOpens] /\ \A d \in Clients \ {c} : connection'[d] = connection[d]
  BY <1>1, <1>3, <1>5, <1>6 DEF Typed
<1>16. \A d \in Clients : Linking(d)' <=> Linking(d)
  BY <1>1, <1>3, <1>4, <1>7, LinkingSame
<1>17. /\ LinksType(next', me') /\ ListInv'
       /\ next'["ActiveClients"] = next["ActiveClients"]
       /\ \A d \in Clients : Linking(d) => next'[d] = next[d] /\ me'[d] = me[d]
  <2>1. flags'[c] \cap CF_STATEFLAGS = {}
    BY <1>15
  <2> QED BY <1>1, <1>2, <1>3, <1>15, <1>16, <2>1, GrabStep DEF Working
<1>18. Typed'
  BY <1>1, <1>3, <1>4, <1>7, <1>11, <1>15, <1>17 DEF Typed
<1>19. FlagInv'
  <2> SUFFICES ASSUME NEW d \in Clients
               PROVE  /\ \A f, g \in flags'[d] \cap CF_STATEFLAGS : f = g
                      /\ "CF_CLOSING" \in flags'[d] => flags'[d] \cap {"CF_ACTIVE", "CF_CLOSED"} # {}
                      /\ recyclePending'[d] => "CF_CLOSED" \in flags'[d]
                      /\ "CF_AVAILABLE" \in flags'[d] => ~socket'[d]
    BY DEF FlagInv
  <2>1. CASE d = c
    BY <1>15, <2>1
  <2>2. CASE d # c
    BY <1>1, <1>3, <1>15, <2>2 DEF FlagInv
  <2> QED BY <2>1, <2>2
<1>20. ShapeInv'
  BY <1>1, <1>4, <1>8, ShapeStep DEF Working
<1>21. GoodInv'
  <2>1. Good(thread[t])'
    BY <1>7, <1>10, <1>15 DEF Good, OpensWell, ClosesWell, LocksWell, Keeps, Order
  <2>2. ASSUME NEW u \in Threads \ {t}
        PROVE LET h == thread[u]  d == thread[u].pc IN
         /\ h.at \in {"opening", "adding", "linking"} =>
              flags'[d] = flags[d] /\ (~recyclePending[d] => ~recyclePending'[d])
         /\ h.at = "linking" =>
              me'[d] = me[d] /\ next'[d] = next[d] /\ next'["ActiveClients"] = next["ActiveClients"]
         /\ h.at \in Order => flags'[d] \cap {"CF_ACTIVE", "CF_CLOSED"} # {}
         /\ h.at = "clearing" => "CF_CLOSED" \in flags'[d]
         /\ Keeps(h) => \/ /\ serial'[d] = serial[d] /\ connection'[d] = connection[d]
                           /\ "CF_ACTIVE" \in flags[d] => "CF_ACTIVE" \in flags'[d]
                        \/ serial'[d] = serial[d] /\ "CF_ACTIVE" \notin flags[d]
    <3> DEFINE h == thread[u]
               d == thread[u].pc
    <3>1. Good(h) /\ Shape(u, h)
      BY <1>1 DEF Working, GoodInv, ShapeInv
    <3>2. h.at \in {"opening", "adding", "linking"} => d \in Clients /\ d # c
      BY <1>1, <1>5, OpenedIs
    <3>3. Keeps(h) \/ h.at \in Order \cup {"clearing"} => d \in Clients
      BY <3>1 DEF Shape, Role, Keeps, Order
    <3>4. h.at \in Order => flags[d] \cap {"CF_ACTIVE", "CF_CLOSED"} # {}
      BY <3>1 DEF Good, ClosesWell
    <3>5. h.at = "clearing" => "CF_CLOSED" \in flags[d]
      BY <3>1 DEF Good, ClosesWell
    <3>6. h.at = "linking" => d \in Clients /\ Linking(d)
      BY <3>1, <3>2 DEF Shape, Role, Linking
    <3> HIDE DEF h, d
    <3>7. d \in Clients /\ d # c => flags'[d] = flags[d] /\ recyclePending'[d] = recyclePending[d]
                                    /\ connection'[d] = connection[d]
      BY <1>15
    <3>8. d = c => "CF_ACTIVE" \notin flags[d] /\ "CF_CLOSED" \notin flags[d] /\ flags[d] \cap {"CF_ACTIVE", "CF_CLOSED"} = {}
      BY <1>5
    <3>9. serial' = serial
      BY <1>3
    <3> QED BY <1>17, <3>2, <3>3, <3>4, <3>5, <3>6, <3>7, <3>8, <3>9 DEF h, d
  <2> QED BY <1>1, <1>4, <2>1, <2>2, GoodStep DEF Working
<1>22. ClearInv'
  <2>1. k.at \notin Order /\ k.at # "clearing"
    BY <1>7 DEF Order
  <2> QED BY <1>1, <1>4, <2>1, ClearStep DEF Working
<1>23. KnownInv'
  <2>1. \A u \in Threads, d \in Clients : Fresh(thread[u], d) => Fresh(thread'[u], d)
    <3>1. \A d \in Clients : ~Fresh(thread[t], d)
      BY <1>3 DEF Fresh
    <3> QED BY <1>1, <1>4, <3>1, FreshSame
  <2> SUFFICES ASSUME NEW d \in Clients, flags'[d] \cap CF_STATEFLAGS = {}, socket'[d]
               PROVE  \E u \in Openers : Fresh(thread'[u], d)
    BY DEF KnownInv
  <2>2. d # c /\ socket[d]
    BY <1>3, <1>5
  <2> QED BY <1>1, <1>15, <2>1, <2>2 DEF Working, KnownInv, Threads
<1>24. PendingHasRecycler'
  <2>1. \A d \in Clients \ {c} : Held(d)' <=> Held(d)
    BY <1>11 DEF Held
  <2>2. \A d \in Clients : recyclePending'[d] => recyclePending[d] /\ d # c
    BY <1>15
  <2> QED BY <1>1, <1>3, <1>4, <2>1, <2>2, PendingStep DEF Working
<1> QED BY <1>3, <1>11, <1>12, <1>13, <1>14, <1>17, <1>18, <1>19, <1>20, <1>21, <1>22, <1>23, <1>24 DEF Inv, Working

(***************************************************************************)
(* The beginning                                                           *)
(***************************************************************************)

\* The links of a client of a list in which it is once.
LEMMA LinksOf ==
  ASSUME NEW q \in Seq(Clients), \A i, j \in 1..Len(q) : q[i] = q[j] => i = j, NEW i \in 1..Len(q), NEW l
  PROVE  /\ After(q, q[i]) = (IF i = Len(q) THEN None ELSE q[i + 1])
         /\ Before(l, q, q[i]) = (IF i = 1 THEN l ELSE q[i - 1])
<1>1. (CHOOSE j \in 1..Len(q) : q[j] = q[i]) = i
  OBVIOUS
<1> QED BY <1>1 DEF After, Before

\* The clients of the initial lists: each is in one, once.
LEMMA InitialLists ==
  /\ \A i, j \in 1..Len(Active) : Active[i] = Active[j] => i = j
  /\ \A i, j \in 1..Len(Available) : Available[i] = Available[j] => i = j
  /\ \A i \in 1..Len(Active), j \in 1..Len(Available) : Active[i] # Available[j]
  /\ Clients = Members(Active) \cup Members(Available)
  /\ Open = Members(Active) /\ Members(Available) = Clients \ Open
<1> DEFINE all == Active \o Available
<1>1. Active \in Seq(Clients) /\ Available \in Seq(Clients)
  BY ClientsAssumption
<1>2. /\ all \in Seq(Clients) /\ Len(all) = Len(Active) + Len(Available)
      /\ \A i \in 1..Len(Active) : all[i] = Active[i]
      /\ \A j \in 1..Len(Available) : all[Len(Active) + j] = Available[j]
      /\ DOMAIN all = 1..(Len(Active) + Len(Available))
  BY <1>1
<1>3. Clients = {all[i] : i \in DOMAIN all} /\ \A i, j \in DOMAIN all : all[i] = all[j] => i = j
  BY ClientsAssumption
<1> HIDE DEF all
<1>4. \A i, j \in 1..Len(Active) : Active[i] = Active[j] => i = j
  <2> TAKE i, j \in 1..Len(Active)
  <2>1. i \in DOMAIN all /\ j \in DOMAIN all
    BY <1>1, <1>2
  <2> QED BY <1>2, <1>3, <2>1
<1>5. \A i, j \in 1..Len(Available) : Available[i] = Available[j] => i = j
  <2> TAKE i, j \in 1..Len(Available)
  <2>1. Len(Active) + i \in DOMAIN all /\ Len(Active) + j \in DOMAIN all
    BY <1>1, <1>2
  <2>2. Available[i] = Available[j] => Len(Active) + i = Len(Active) + j
    BY <1>2, <1>3, <2>1
  <2> QED BY <1>1, <2>2
<1>6. \A i \in 1..Len(Active), j \in 1..Len(Available) : Active[i] # Available[j]
  <2> TAKE i \in 1..Len(Active), j \in 1..Len(Available)
  <2>1. i \in DOMAIN all /\ Len(Active) + j \in DOMAIN all /\ i # Len(Active) + j
    BY <1>1, <1>2
  <2> QED BY <1>2, <1>3, <2>1
<1>7. Clients = Members(Active) \cup Members(Available)
  <2>1. ASSUME NEW c \in Clients PROVE c \in Members(Active) \cup Members(Available)
    <3>1. PICK i \in 1..(Len(Active) + Len(Available)) : c = all[i]
      BY <1>2, <1>3
    <3>2. CASE i \in 1..Len(Active)
      BY <1>2, <3>1, <3>2 DEF Members
    <3>3. CASE i \notin 1..Len(Active)
      <4>1. i - Len(Active) \in 1..Len(Available) /\ Len(Active) + (i - Len(Active)) = i
        BY <1>1, <3>3
      <4>2. c = Available[i - Len(Active)]
        BY <1>2, <3>1, <4>1
      <4> QED BY <4>1, <4>2 DEF Members
    <3> QED BY <3>2, <3>3
  <2>2. Members(Active) \subseteq Clients /\ Members(Available) \subseteq Clients
    BY <1>1 DEF Members
  <2> QED BY <2>1, <2>2
<1>8. Open = Members(Active)
  BY DEF Open, Members
<1>9. Members(Active) \cap Members(Available) = {}
  BY <1>6 DEF Members
<1> QED BY <1>4, <1>5, <1>6, <1>7, <1>8, <1>9

\* The lists at the beginning.
LEMMA InitLists ==
  ASSUME Init
  PROVE  LinksType(next, me) /\ ListInv
<1> DEFINE s == [l \in Lists |-> CASE l = "ActiveClients" -> Active
                                   [] l = "AvailableClients" -> Available
                                   [] OTHER -> Nil]
<1>1. /\ Lists = {"AvailableClients", "ActiveClients", "ClosedClients"}
      /\ s["ActiveClients"] = Active /\ s["AvailableClients"] = Available /\ s["ClosedClients"] = Nil
  BY DEF Lists
<1>2. Active \in Seq(Clients) /\ Available \in Seq(Clients) /\ Nil \in Seq(Clients) /\ Len(Nil) = 0
  <2>1. Nil \in Seq(Clients) /\ Len(Nil) = 0
    BY DEF Nil
  <2> QED BY <2>1, ClientsAssumption
<1>3. s \in [Lists -> Seq(Clients)]
  BY <1>1, <1>2
<1> HIDE DEF s
<1>4. OncePlaced(s)
  <2> SUFFICES ASSUME NEW l \in Lists, NEW k \in Lists, NEW i \in 1..Len(s[l]), NEW j \in 1..Len(s[k]), s[l][i] = s[k][j]
               PROVE  l = k /\ i = j
    BY DEF OncePlaced
  <2>1. l # "ClosedClients" /\ k # "ClosedClients"
    BY <1>1, <1>2
  <2>2. CASE l = "ActiveClients" /\ k = "ActiveClients"
    BY <1>1, <2>2, InitialLists
  <2>3. CASE l = "AvailableClients" /\ k = "AvailableClients"
    BY <1>1, <2>3, InitialLists
  <2>4. ~(l = "ActiveClients" /\ k = "AvailableClients")
    BY <1>1, InitialLists
  <2>5. ~(l = "AvailableClients" /\ k = "ActiveClients")
    BY <1>1, InitialLists
  <2> QED BY <1>1, <2>1, <2>2, <2>3, <2>4, <2>5
\* Of the lists that are not empty, the first client and the links of each.
<1>5. ASSUME NEW i \in 1..Len(Active)
      PROVE  /\ Active[i] \in Clients /\ Active[i] \in Open
             /\ next[Active[i]] = (IF i = Len(Active) THEN None ELSE Active[i + 1])
             /\ me[Active[i]] = (IF i = 1 THEN "ActiveClients" ELSE Active[i - 1])
  <2>1. Active[i] \in Clients /\ Active[i] \in Open
    BY <1>2 DEF Open
  <2>2. Active[i] \notin Lists
    BY <2>1, Distinct
  <2>3. next[Active[i]] = After(Active, Active[i]) /\ me[Active[i]] = Before("ActiveClients", Active, Active[i])
    BY <1>1, <2>1, <2>2 DEF Init
  <2>4. Active \in Seq(Clients) /\ \A j, h \in 1..Len(Active) : Active[j] = Active[h] => j = h
    BY <1>2, InitialLists
  <2>5. /\ After(Active, Active[i]) = (IF i = Len(Active) THEN None ELSE Active[i + 1])
        /\ Before("ActiveClients", Active, Active[i]) = (IF i = 1 THEN "ActiveClients" ELSE Active[i - 1])
    BY <2>4, LinksOf
  <2> QED BY <2>1, <2>3, <2>5
<1>6. ASSUME NEW i \in 1..Len(Available)
      PROVE  /\ Available[i] \in Clients /\ Available[i] \notin Open
             /\ next[Available[i]] = (IF i = Len(Available) THEN None ELSE Available[i + 1])
             /\ me[Available[i]] = (IF i = 1 THEN "AvailableClients" ELSE Available[i - 1])
  <2>1. Available[i] \in Clients /\ Available[i] \notin Open
    <3>1. Available[i] \in Members(Available)
      BY DEF Members
    <3> QED BY <3>1, InitialLists
  <2>2. Available[i] \notin Lists
    BY <2>1, Distinct
  <2>3. next[Available[i]] = After(Available, Available[i]) /\ me[Available[i]] = Before("AvailableClients", Available, Available[i])
    BY <1>1, <2>1, <2>2 DEF Init
  <2>4. Available \in Seq(Clients) /\ \A j, h \in 1..Len(Available) : Available[j] = Available[h] => j = h
    BY <1>2, InitialLists
  <2>5. /\ After(Available, Available[i]) = (IF i = Len(Available) THEN None ELSE Available[i + 1])
        /\ Before("AvailableClients", Available, Available[i]) = (IF i = 1 THEN "AvailableClients" ELSE Available[i - 1])
    BY <2>4, LinksOf
  <2> QED BY <2>1, <2>3, <2>5
<1>7. /\ next["AvailableClients"] = First(Available) /\ next["ActiveClients"] = First(Active)
      /\ next["ClosedClients"] = None
  <2>1. next = [x \in Lists \cup Clients |->
               CASE x = "AvailableClients" -> First(Available)
                 [] x = "ActiveClients"    -> First(Active)
                 [] x = "ClosedClients"    -> None
                 [] x \in Open             -> After(Active, x)
                 [] OTHER                  -> After(Available, x)]
    BY DEF Init
  <2>2. "AvailableClients" \in Lists /\ "ActiveClients" \in Lists /\ "ClosedClients" \in Lists
    BY <1>1
  <2>3. \A l \in Lists : l \notin Open
    <3>1. Open \subseteq Clients
      BY InitialLists
    <3> QED BY <3>1, Distinct
  <2> QED BY <2>1, <2>2, <2>3
<1>8. \A q \in Seq(Clients) : First(q) = (IF Len(q) = 0 THEN None ELSE q[1])
  <2>1. \A q \in Seq(Clients) : q = <<>> <=> Len(q) = 0
    OBVIOUS
  <2> QED BY <2>1 DEF First
<1>9. Linked(next, me, "ActiveClients", Active)
  BY <1>2, <1>5, <1>7, <1>8 DEF Linked
<1>10. Linked(next, me, "AvailableClients", Available)
  BY <1>2, <1>6, <1>7, <1>8 DEF Linked
<1>11. Linked(next, me, "ClosedClients", Nil)
  BY <1>2, <1>7 DEF Linked
<1>12. Arranged(next, me, s)
  BY <1>1, <1>3, <1>4, <1>9, <1>10, <1>11 DEF Arranged
<1>13. /\ In("ActiveClients") = Members(Active) /\ In("AvailableClients") = Members(Available)
       /\ In("ClosedClients") = Members(Nil)
  <2>1. \A c \in Clients : ~Linking(c)
    BY DEF Init, Linking, NoCall, Threads
  <2>2. \A c \in Clients : flags[c] = IF c \in Open THEN {"CF_ACTIVE"} ELSE {"CF_AVAILABLE"}
    BY DEF Init
  <2>3. In("ActiveClients") = Open
    <3>1. Open \subseteq Clients
      BY InitialLists
    <3> QED BY <2>1, <2>2, <3>1, FlagIs DEF In
  <2>4. In("AvailableClients") = Clients \ Open
    BY <2>1, <2>2, FlagIs DEF In
  <2>5. In("ClosedClients") = {}
    BY <2>1, <2>2, FlagIs DEF In
  <2>6. Members(Nil) = {}
    BY <1>2 DEF Members
  <2> QED BY <2>3, <2>4, <2>5, <2>6, InitialLists
<1>14. ListInv
  <2>1. [l \in Lists |-> In(l)] = [l \in Lists |-> Members(s[l])]
    BY <1>1, <1>13
  <2> QED BY <1>12, <2>1 DEF ListInv, InPlace
<1>15. LinksType(next, me)
  <2>1. ASSUME NEW c \in Clients
        PROVE  next[c] \in Clients \cup {None} /\ me[c] \in Lists \cup Clients
    <3>1. c \in Members(Active) \/ c \in Members(Available)
      BY InitialLists
    <3>2. CASE c \in Members(Active)
      <4>1. PICK i \in 1..Len(Active) : c = Active[i]
        BY <3>2 DEF Members
      <4>2. i # Len(Active) => i + 1 \in 1..Len(Active)
        BY <1>2
      <4>3. i # 1 => i - 1 \in 1..Len(Active)
        BY <1>2
      <4> QED BY <1>1, <1>5, <4>1, <4>2, <4>3
    <3>3. CASE c \in Members(Available)
      <4>1. PICK i \in 1..Len(Available) : c = Available[i]
        BY <3>3 DEF Members
      <4>2. i # Len(Available) => i + 1 \in 1..Len(Available)
        BY <1>2
      <4>3. i # 1 => i - 1 \in 1..Len(Available)
        BY <1>2
      <4> QED BY <1>1, <1>6, <4>1, <4>2, <4>3
    <3> QED BY <3>1, <3>2, <3>3
  <2>2. \A l \in Lists : next[l] \in Clients \cup {None}
    <3>1. First(Active) \in Clients \cup {None} /\ First(Available) \in Clients \cup {None}
      BY <1>2, <1>8
    <3> QED BY <1>1, <1>7, <3>1
  <2>3. DOMAIN next = Lists \cup Clients /\ next = [x \in Lists \cup Clients |-> next[x]]
        /\ DOMAIN me = Clients /\ me = [x \in Clients |-> me[x]]
    BY DEF Init
  <2> QED BY <2>1, <2>2, <2>3 DEF LinksType
<1> QED BY <1>14, <1>15

(***************************************************************************)
(* The invariant is kept                                                   *)
(***************************************************************************)

\* The invariant holds at the beginning.
LEMMA InitKeeps ==
  ASSUME Init
  PROVE  Inv
<1>1. /\ flags = [c \in Clients |-> IF c \in Open THEN {"CF_ACTIVE"} ELSE {"CF_AVAILABLE"}]
      /\ socket = [c \in Clients |-> c \in Open]
      /\ serial = [c \in Clients |-> 0] /\ recyclePending = [c \in Clients |-> FALSE]
      /\ csLock = [c \in Clients |-> [ch \in Channels |-> Blank]] /\ csNetwork = Blank
      /\ thread = [t \in Threads |-> NoCall]
      /\ opens = 0 /\ connection = [c \in Clients |-> 0] /\ fault = FALSE
  BY DEF Init
<1>2. \A t \in Threads : thread[t] = NoCall
  BY <1>1
<1>3. Blank \in Sections /\ Blank.owner = None /\ Blank.locks = 0
  BY DEF Blank, Sections
<1>4. \A c \in Clients : flags[c] \in {{"CF_ACTIVE"}, {"CF_AVAILABLE"}} /\ ~recyclePending[c]
                         /\ (flags[c] = {"CF_AVAILABLE"} => ~socket[c])
                         /\ \A ch \in Channels : csLock[c][ch] = Blank
  BY <1>1
<1>5. LinksType(next, me) /\ ListInv
  BY InitLists
<1>6. Typed
  <2>1. flags \in [Clients -> SUBSET (CF_STATEFLAGS \cup {"CF_CLOSING"})]
    BY <1>1 DEF CF_STATEFLAGS
  <2>2. csLock \in [Clients -> [Channels -> Sections]] /\ csNetwork \in Sections
    BY <1>1, <1>3
  <2>3. thread \in [Threads -> Calls]
    BY <1>1, NoCallIs
  <2>4. opens \in 0..MaxOpens /\ connection \in [Clients -> 0..MaxOpens]
    BY <1>1, Distinct
  <2>5. socket \in [Clients -> BOOLEAN] /\ recyclePending \in [Clients -> BOOLEAN] /\ fault \in BOOLEAN
    <3>1. \A c \in Clients : (c \in Open) \in BOOLEAN
      OBVIOUS
    <3>2. socket \in [Clients -> BOOLEAN]
      <4>1. socket = [c \in Clients |-> c \in Open]
        BY <1>1
      <4> QED BY <3>1, <4>1, Zenon
    <3>3. recyclePending \in [Clients -> BOOLEAN]
      <4>1. recyclePending = [c \in Clients |-> FALSE]
        BY <1>1
      <4> QED BY <4>1
    <3>4. fault \in BOOLEAN
      BY <1>1
    <3> QED BY <3>2, <3>3, <3>4
  <2>6. serial \in [Clients -> Nat]
    BY <1>1
  <2> QED BY <1>5, <2>1, <2>2, <2>3, <2>4, <2>5, <2>6 DEF Typed
<1>7. SectionsOK
  BY <1>1, <1>3, <1>4 DEF SectionsOK
<1>8. FlagInv
  BY <1>4 DEF FlagInv
<1>9. ShapeInv /\ GoodInv
  BY <1>2, NoCallKept DEF ShapeInv, GoodInv
<1>10. OwnInv
  BY <1>2, <1>3, <1>4, NoCallKept, Distinct DEF OwnInv
<1>11. NetInv
  <2>1. csNetwork.owner = None
    BY <1>1, <1>3
  <2>2. ASSUME NEW t \in Threads PROVE ~Networks(thread[t]) /\ csNetwork.owner # t
    <3>1. ~Networks(NoCall)
      BY NoCallKept
    <3> QED BY <1>2, <2>1, <3>1, Distinct
  <2> QED BY <2>2 DEF NetInv
<1>12. ClearInv
  BY <1>2, NoCallIs DEF ClearInv
<1>13. KnownInv
  BY <1>4 DEF KnownInv, CF_STATEFLAGS
<1>14. PendingHasRecycler
  BY <1>4 DEF PendingHasRecycler
<1> QED BY <1>1, <1>5, <1>6, <1>7, <1>8, <1>9, <1>10, <1>11, <1>12, <1>13, <1>14 DEF Inv, Working

\* The invariant does not depend on anything but the variables.
LEMMA StutterKeeps ==
  ASSUME Inv, UNCHANGED vars
  PROVE  Inv'
<1>1. UNCHANGED <<next, me, flags, socket, serial, recyclePending, csLock, csNetwork, thread, opens, connection, fault>>
  BY DEF vars, lists, state, history
<1>2. Typed' /\ SectionsOK' /\ FlagInv'
  BY <1>1 DEF Inv, Typed, SectionsOK, FlagInv
<1>3. \A k : Good(k)' <=> Good(k)
  BY <1>1 DEF Good, OpensWell, ClosesWell, LocksWell
<1>4. \A l \in Lists : In(l)' = In(l)
  BY <1>1 DEF In, Linking
<1>5. ASSUME Working PROVE Working'
  <2>1. ShapeInv' /\ OwnInv' /\ NetInv' /\ ClearInv'
    BY <1>1, <1>5 DEF Working, ShapeInv, OwnInv, NetInv, ClearInv
  <2>2. GoodInv'
    BY <1>1, <1>5 DEF Working, GoodInv, Good, OpensWell, ClosesWell, LocksWell
  <2>3. ListInv'
    BY <1>1, <1>4, <1>5, ListSame DEF Working, lists
  <2>4. KnownInv' /\ PendingHasRecycler'
    BY <1>1, <1>5 DEF Working, KnownInv, PendingHasRecycler, Held
  <2> QED BY <2>1, <2>2, <2>3, <2>4 DEF Working
<1>6. ASSUME fault PROVE \A t \in Threads : thread'[t] = NoCall
  BY <1>1, <1>6 DEF Inv
<1> QED BY <1>1, <1>2, <1>5, <1>6 DEF Inv

\* Nothing is done after a trap: no thread is in a call.
LEMMA FaultStops ==
  ASSUME Inv, fault, NEW t \in Threads
  PROVE  ~Call(t) /\ ~Step(t)
<1>1. thread[t].at = "idle"
  BY NoCallIs DEF Inv
<1>2. ~Call(t)
  BY DEF Call, OpenCall, LockCall, RemoveCall, EventCall
<1>3. ~Step(t)
  BY <1>1 DEF Step, LockEnter, LockBusy, LockCheck, UnlockLeave, UnlockTest, Recheck, Recycle, Get, GetLost, Register,
              AddActive, LinkActive, LockAgain, Validate, Release, EnterRemove, RemoveAgain, Yield, Notify,
              AddClosed, Finish, Terminate, LeaveNetwork, EventAgain, EventFlags, EventSocket, Read, Unmark
<1> QED BY <1>2, <1>3

\* Every step keeps the invariant, from a state that is orderly.
LEMMA NextKeeps ==
  ASSUME Inv, Orderly, [Next]_vars
  PROVE  Inv'
<1>1. CASE UNCHANGED vars
  BY <1>1, StutterKeeps
<1>2. ASSUME NEW t \in Threads, Call(t) \/ Step(t) PROVE Inv'
  <2>1. ~fault
    BY <1>2, FaultStops
  <2>2. CASE Call(t)
    BY <2>1, <2>2, OpenCallKeeps, LockCallKeeps, RemoveCallKeeps, EventCallKeeps DEF Call
  <2>3. CASE LockEnter(t) \/ LockBusy(t) \/ LockCheck(t)
    BY <2>1, <2>3, LockEnterKeeps, LockBusyKeeps, LockCheckKeeps
  <2>4. CASE UnlockLeave(t) \/ UnlockTest(t) \/ Recheck(t) \/ Recycle(t)
    BY <2>1, <2>4, UnlockLeaveKeeps, UnlockTestKeeps, RecheckKeeps, RecycleKeeps
  <2>5. CASE Get(t) \/ GetLost(t) \/ Register(t) \/ AddActive(t) \/ LinkActive(t)
    BY <2>1, <2>5, GetKeeps, GetLostKeeps, RegisterKeeps, AddActiveKeeps, LinkActiveKeeps
  <2>6. CASE LockAgain(t) \/ Validate(t) \/ Release(t)
    BY <2>1, <2>6, LockAgainKeeps, ValidateKeeps, ReleaseKeeps
  <2>7. CASE EnterRemove(t) \/ RemoveAgain(t) \/ Yield(t) \/ Notify(t) \/ AddClosed(t)
    BY <2>1, <2>7, EnterRemoveKeeps, RemoveAgainKeeps, YieldKeeps, NotifyKeeps, AddClosedKeeps
  <2>8. CASE Finish(t) \/ Terminate(t) \/ LeaveNetwork(t)
    BY <2>1, <2>8, FinishKeeps, TerminateKeeps, LeaveNetworkKeeps
  <2>9. CASE EventAgain(t) \/ EventFlags(t) \/ EventSocket(t) \/ Read(t) \/ Unmark(t)
    BY <2>1, <2>9, EventAgainKeeps, EventFlagsKeeps, EventSocketKeeps, ReadKeeps, UnmarkKeeps
  <2> QED BY <1>2, <2>2, <2>3, <2>4, <2>5, <2>6, <2>7, <2>8, <2>9 DEF Step
<1> QED BY <1>1, <1>2 DEF Next

\* As long as closing and opening are orderly, the invariant holds: of any number of clients and of
\* threads, every section is held by whom its call says, the lists are made of those who belong in
\* them, and every call finds its client in the state it relies on (network.c, udpnetwork.c and
\* network_linux.c, under csNetwork and the two sections of a client).
THEOREM Safe == Spec /\ []Orderly => []Inv
<1>1. Init => Inv
  BY InitKeeps
<1>2. Inv /\ Orderly /\ [Next]_vars => Inv'
  BY NextKeeps
<1> QED BY <1>1, <1>2, PTL DEF Spec

(***************************************************************************)
(* What follows from the invariant                                         *)
(***************************************************************************)

\* The types, from the invariant.
LEMMA TypeCorrectHere ==
  ASSUME Inv
  PROVE  TypeOK
<1>1. Typed /\ SectionsOK /\ FlagInv
  BY DEF Inv
<1>2. \A c \in Clients : "CF_AVAILABLE" \in flags[c] => "CF_CLOSING" \notin flags[c]
  <2> SUFFICES ASSUME NEW c \in Clients, "CF_AVAILABLE" \in flags[c], "CF_CLOSING" \in flags[c]
               PROVE  FALSE
    OBVIOUS
  <2>1. "CF_ACTIVE" \in flags[c] \/ "CF_CLOSED" \in flags[c]
    BY <1>1 DEF FlagInv
  <2> QED BY <1>1, <2>1 DEF FlagInv, CF_STATEFLAGS
<1>3. \A c \in Clients : recyclePending[c] => "CF_CLOSED" \in flags[c]
  BY <1>1 DEF FlagInv
<1> QED BY <1>1, <1>2, <1>3 DEF TypeOK, Typed, LinksType, SectionsOK

\* Every variable has its type; a section has an owner while it is held, and a client that is to be
\* recycled is closed (recyclePending is set by TerminateClosedClientEx and reset by whoever recycles).
THEOREM TypeCorrect == Spec /\ []Orderly => []TypeOK
<1>1. Inv => TypeOK
  BY TypeCorrectHere
<1> QED BY <1>1, Safe, PTL

\* The lists, from the invariant.
LEMMA ListsIntactHere ==
  ASSUME Inv, NoTrap
  PROVE  ListsIntact
<1>1. InPlace(next, me, [l \in Lists |-> In(l)])
  BY DEF Inv, NoTrap, Working, ListInv
<1>2. PICK s : Arranged(next, me, s) /\ [l \in Lists |-> In(l)] = [l \in Lists |-> Members(s[l])]
  BY <1>1 DEF InPlace
<1>3. \A l \in Lists : Members(s[l]) = In(l)
  <2> TAKE l \in Lists
  <2>1. [h \in Lists |-> In(h)][l] = [h \in Lists |-> Members(s[h])][l]
    BY <1>2
  <2> QED BY <2>1
<1> QED BY <1>2, <1>3, IntactIf DEF In

\* A held client, from the invariant.
LEMMA HeldIsMeantHere ==
  ASSUME Inv
  PROVE  HeldIsMeant
<1> SUFFICES ASSUME NEW t \in Lockers, thread[t].at = "holding"
             PROVE  /\ NetworkClientValid(thread[t].pc, thread[t].serial)
                    /\ connection[thread[t].pc] = thread[t].connection
  BY DEF HeldIsMeant
<1>1. t \in Threads /\ ~fault
  BY NoCallIs DEF Inv, Threads
<1>2. Good(thread[t]) /\ Shape(t, thread[t]) /\ FlagInv /\ Typed
  BY <1>1, Unpack
<1>3. Keeps(thread[t]) /\ thread[t].pc \in Clients
  BY <1>2 DEF Keeps, Shape, Role
<1>4. thread[t].serial = serial[thread[t].pc] /\ serial[thread[t].pc] \in Nat
  BY <1>2, <1>3 DEF Good, LocksWell, Typed
<1>5. /\ connection[thread[t].pc] = thread[t].connection /\ "CF_ACTIVE" \in flags[thread[t].pc]
  BY <1>2, <1>3, <1>4 DEF Good, LocksWell
<1>6. "CF_CLOSED" \notin flags[thread[t].pc]
  BY <1>2, <1>3, <1>5 DEF FlagInv, CF_STATEFLAGS
<1> QED BY <1>4, <1>5, <1>6 DEF NetworkClientValid

\* A thread that has locked a client and found the serial it kept (NetworkClientValid after
\* NetworkLockEx) has the connection it means, open until it unlocks.
THEOREM HeldIsAlwaysMeant == Spec /\ []Orderly => []HeldIsMeant
<1>1. Inv => HeldIsMeant
  BY HeldIsMeantHere
<1> QED BY <1>1, Safe, PTL

\* A client that is being opened, from the invariant.
LEMMA FreshIsOpenHere ==
  ASSUME Inv
  PROVE  FreshIsOpen
<1> SUFFICES ASSUME NEW t \in Openers, thread[t].at \in {"opening", "adding", "linking"}
             PROVE  /\ flags[thread[t].pc] \subseteq {"CF_ACTIVE"} /\ ~recyclePending[thread[t].pc]
                    /\ \A ch \in Channels : csLock[thread[t].pc][ch].owner = t
  BY DEF FreshIsOpen
<1>1. t \in Threads /\ ~fault
  BY NoCallIs DEF Inv, Threads
<1>2. Working
  BY <1>1 DEF Inv
<1>3. /\ thread[t].pc \in Clients /\ flags[thread[t].pc] \in {{}, {"CF_ACTIVE"}} /\ ~recyclePending[thread[t].pc]
      /\ \A ch \in Channels : Owns(t, thread[t], thread[t].pc, ch)
  BY <1>1, <1>2, OpenedIs
<1>4. \A ch \in Channels : csLock[thread[t].pc][ch].owner = t
  BY <1>1, <1>2, <1>3 DEF Working, OwnInv
<1> QED BY <1>3, <1>4

\* A client whose recycling TerminateClosedClientEx has put off is still locked, or a thread
\* is in NetworkUnlockEx for it and has yet to look.
THEOREM PendingAlwaysHasRecycler == Spec /\ []Orderly => []PendingHasRecycler
<1>1. Inv => PendingHasRecycler
  BY DEF Inv, Working, PendingHasRecycler
<1> QED BY <1>1, Safe, PTL

\* One thread calls RemoveClient.
OneCloser == \A t, u \in Closers : t = u

\* No crossed wait, from the invariant.
LEMMA NoCrossedWaitHere ==
  ASSUME Inv, Orderly, OneCloser
  PROVE  NoCrossedWait
<1> SUFFICES ASSUME NEW t \in Threads, NEW u \in Threads, NEW ch \in Channels,
                    csNetwork.owner = t, thread[t].at \in {"locking", "refused"}, thread[t].no = "refused",
                    "CF_ACTIVE" \in flags[thread[t].pc], WaitsForNetwork(u),
                    csLock[thread[t].pc][ch].owner = u
             PROVE  FALSE
  BY DEF NoCrossedWait
<1> DEFINE c == thread[t].pc
<1>1. ~fault
  BY NoCallIs DEF Inv
<1>2. Working /\ Shape(t, thread[t]) /\ Shape(u, thread[u])
  BY <1>1, Unpack
<1>3. c \in Clients
  BY <1>2 DEF Shape, Role
<1>4. t \in Closers
  BY <1>2 DEF Shape, Role, Locking
<1>5. t # u /\ thread[u].at \in {"getting", "recheck", "entering", "notify", "callback"}
  BY DEF WaitsForNetwork, Free
<1>6. Owns(u, thread[u], c, ch)
  BY <1>2, <1>3 DEF Working, OwnInv
<1>7. CASE thread[u].at = "entering"
  <2>1. thread[u].locked /\ thread[u].pc = c
    BY <1>6, <1>7 DEF Owns
  <2>2. u \in EventThreads
    BY <1>2, <2>1 DEF Shape, Role
  <2> QED BY <1>7, <2>1, <2>2 DEF Orderly, NoLateClose
<1>8. CASE thread[u].at \in {"notify", "callback"}
  <2>1. u \in Closers
    BY <1>2, <1>8 DEF Shape, Role
  <2> QED BY <1>4, <1>5, <2>1 DEF OneCloser
<1>9. CASE thread[u].at \in {"getting", "recheck"}
  BY <1>6, <1>9 DEF Owns
<1> QED BY <1>5, <1>7, <1>8, <1>9

\* Without read events no step traps: each thread leaves the sections that are its own, and no link
\* that LinkActive follows is NULL.
LEMMA TrapsNot ==
  ASSUME Inv, Orderly, NoTrap, EventThreads = {}, [Next]_vars
  PROVE  NoTrap'
<1>1. ~fault /\ fault \in BOOLEAN
  BY DEF NoTrap, Inv, Typed
<1>2. CASE UNCHANGED vars
  BY <1>1, <1>2 DEF vars, NoTrap
<1>3. ASSUME NEW t \in Threads, UnlockLeave(t) PROVE NoTrap'
  <2>1. Working /\ Shape(t, thread[t]) /\ thread[t].at = "unlocking"
    BY <1>1, <1>3, Unpack DEF UnlockLeave
  <2> DEFINE c == thread[t].pc
             ch == Head(thread[t].todo)
  <2>2. c \in Clients /\ ch \in Channels /\ Owns(t, thread[t], c, ch)
    <3>1. c \in Clients /\ thread[t].todo \in {Only(0), Only(1), Both} /\ t \notin EventThreads
      BY <2>1 DEF Shape, Role, Unlocking
    <3>2. ch \in Channels /\ (thread[t].todo = Both \/ thread[t].todo = Only(ch))
      BY <3>1, WordsAre DEF Channels
    <3> HIDE DEF ch
    <3> QED BY <2>1, <3>1, <3>2 DEF Owns
  <2>3. csLock[c][ch].owner = t
    BY <2>1, <2>2 DEF Working, OwnInv
  <2> QED BY <1>1, <1>3, <2>3 DEF UnlockLeave, NoTrap
<1>4. ASSUME NEW t \in Threads, LinkActive(t) PROVE NoTrap'
  <2>1. Good(thread[t]) /\ thread[t].at = "linking"
    BY <1>1, <1>4, Unpack DEF LinkActive
  <2>2. next[thread[t].pc] = next["ActiveClients"]
    BY <2>1 DEF Good, OpensWell
  <2> QED BY <1>1, <1>4, <2>2 DEF LinkActive, NoTrap
<1>5. ASSUME NEW t \in Threads, Call(t) \/ Step(t), ~UnlockLeave(t), ~LinkActive(t) PROVE fault' = fault
  BY <1>5 DEF Call, Step, OpenCall, LockCall, RemoveCall, EventCall, LockEnter, LockBusy, LockCheck, UnlockTest,
     Recheck, Recycle, Get, GetLost, Register, AddActive, LockAgain, Validate, Release, EnterRemove, RemoveAgain,
     Yield, Notify, AddClosed, Finish, Terminate, LeaveNetwork, EventAgain, EventFlags, EventSocket, Read, Unmark
<1> QED BY <1>1, <1>2, <1>3, <1>4, <1>5 DEF Next, NoTrap

(***************************************************************************)
(* When nothing is opened meanwhile                                        *)
(***************************************************************************)

\* One thread opens and closes.
OneMover == \A t, u \in Openers \cup Closers : t = u
\* All is open from the beginning, or one thread opens and closes and there are no read events.
OpensAlone == Openers = {} \/ (OneMover /\ EventThreads = {})

\* Where one thread opens and closes, and there are no events, it does one thing at a time.
LEMMA OneMoverIsOrderly ==
  ASSUME Inv, OneMover, EventThreads = {}
  PROVE  Orderly
<1>1. CASE fault
  <2>1. \A t \in Threads : thread[t].at = "idle"
    BY <1>1, NoCallIs DEF Inv
  <2> QED BY <2>1 DEF Orderly, NoLateClose, UndisturbedOpen, Threads
<1>2. CASE ~fault
  <2>1. ShapeInv
    BY <1>2 DEF Inv, Working
  <2>2. /\ \A t \in Threads : thread[t].at = "entering" \/ thread[t].at = "callback" => t \in Closers
        /\ \A t \in Threads : thread[t].at \in {"opening", "adding", "linking"} => t \in Openers
    BY <2>1 DEF ShapeInv, Shape, Role
  <2>3. NoLateClose
    BY <2>2 DEF OneMover, NoLateClose, Fresh, Threads
  <2>4. UndisturbedOpen
    BY <2>2 DEF OneMover, UndisturbedOpen, Threads
  <2> QED BY <2>3, <2>4 DEF Orderly
<1> QED BY <1>1, <1>2 DEF Inv, Typed

\* Nothing becomes active where nothing is opened.
LEMMA ActiveBefore ==
  ASSUME Inv, ~fault, Openers = {}, NEW t \in Threads, Call(t) \/ Step(t), NEW c \in Clients, "CF_ACTIVE" \in flags'[c]
  PROVE  "CF_ACTIVE" \in flags[c]
<1>1. flags \in [Clients -> SUBSET (CF_STATEFLAGS \cup {"CF_CLOSING"})]
  BY DEF Inv, Typed
<1>2. CASE Get(t) \/ GetLost(t) \/ Notify(t) \/ Unmark(t) \/ Recycle(t) \/ AddClosed(t) \/ EnterRemove(t)
  <2>1. CASE Get(t)
    BY <1>1, <2>1 DEF Get
  <2>2. CASE GetLost(t)
    BY <1>1, <2>2 DEF GetLost
  <2>3. CASE Notify(t)
    BY <1>1, <2>3 DEF Notify
  <2>4. CASE Unmark(t)
    BY <1>1, <2>4 DEF Unmark
  <2>5. CASE Recycle(t)
    <3>1. flags' = flags \/ RecycleClient(thread[t].pc)
      BY <2>5 DEF Recycle
    <3> QED BY <1>1, <3>1 DEF RecycleClient
  <2>6. CASE AddClosed(t)
    <3>1. CloseClient(thread[t].pc)
      BY <2>6 DEF AddClosed
    <3> QED BY <1>1, <3>1 DEF CloseClient
  <2>7. CASE EnterRemove(t)
    <3>1. flags' = flags \/ CloseClient(thread[t].pc)
      BY <2>7 DEF EnterRemove
    <3> QED BY <1>1, <3>1 DEF CloseClient
  <2> QED BY <1>2, <2>1, <2>2, <2>3, <2>4, <2>5, <2>6, <2>7
<1>3. ~AddActive(t)
  <2>1. Shape(t, thread[t])
    BY Unpack
  <2> QED BY <2>1 DEF AddActive, Shape, Role
<1>4. CASE ~(Get(t) \/ GetLost(t) \/ Notify(t) \/ Unmark(t) \/ Recycle(t) \/ AddClosed(t) \/ EnterRemove(t))
  <2>1. flags' = flags
    BY <1>3, <1>4 DEF Call, Step, OpenCall, LockCall, RemoveCall, EventCall, LockEnter, LockBusy, LockCheck, UnlockLeave,
       UnlockTest, Recheck, Register, LinkActive, LockAgain, Validate, Release, RemoveAgain, Yield, Finish, Terminate,
       LeaveNetwork, EventAgain, EventFlags, EventSocket, Read, state
  <2> QED BY <2>1
<1> QED BY <1>2, <1>4

\* What a step does to the calls of the other threads: nothing, unless it traps.
LEMMA OthersStay ==
  ASSUME Inv, NEW t \in Threads, Call(t) \/ Step(t), NEW u \in Threads \ {t}
  PROVE  thread'[u] = thread[u] \/ thread'[u] = NoCall
<1>1. thread \in [Threads -> Calls]
  BY DEF Inv, Typed
<1>2. CASE UnlockLeave(t) \/ LinkActive(t)
  BY <1>1, <1>2 DEF UnlockLeave, LinkActive, Trap, GoTo
<1>3. CASE GetLost(t)
  BY <1>3 DEF GetLost
<1>4. CASE OpenCall(t) \/ LockCall(t) \/ RemoveCall(t) \/ EventCall(t)
  BY <1>1, <1>4 DEF OpenCall, LockCall, RemoveCall, EventCall
<1>5. CASE LockEnter(t) \/ LockBusy(t) \/ LockCheck(t) \/ UnlockTest(t) \/ Recheck(t) \/ Recycle(t)
  BY <1>1, <1>5 DEF LockEnter, LockBusy, LockCheck, UnlockTest, Recheck, Recycle, GoTo
<1>6. CASE Get(t) \/ Register(t) \/ AddActive(t) \/ LockAgain(t) \/ Validate(t) \/ Release(t)
  BY <1>1, <1>6 DEF Get, Register, AddActive, LockAgain, Validate, Release, GoTo
<1>7. CASE EnterRemove(t) \/ RemoveAgain(t) \/ Yield(t) \/ Notify(t) \/ AddClosed(t) \/ Finish(t) \/ LeaveNetwork(t)
  BY <1>1, <1>7 DEF EnterRemove, RemoveAgain, Yield, Notify, AddClosed, Finish, LeaveNetwork, GoTo
<1>8. CASE Terminate(t)
  BY <1>1, <1>8 DEF Terminate
<1>9. CASE EventAgain(t) \/ EventFlags(t) \/ EventSocket(t) \/ Read(t) \/ Unmark(t)
  BY <1>1, <1>9 DEF EventAgain, EventFlags, EventSocket, Read, Unmark, GoTo
<1> QED BY <1>2, <1>3, <1>4, <1>5, <1>6, <1>7, <1>8, <1>9 DEF Call, Step

\* An event enters InternalRemoveClient for a client that is closed.
LEMMA EventEnters ==
  ASSUME Inv, ~fault, NEW t \in EventThreads, Call(t) \/ Step(t), thread'[t].at = "entering"
  PROVE  EventSocket(t) /\ thread'[t].pc = thread[t].pc /\ "CF_CLOSED" \in flags[thread[t].pc]
<1>1. /\ t \in Threads /\ thread \in [Threads -> Calls] /\ thread[t] \in Calls
      /\ Shape(t, thread[t]) /\ Good(thread[t])
  BY Unpack DEF Threads
<1>2. t \notin Openers \cup Closers \cup Lockers
  BY Distinct
<1>3. ~OpenCall(t) /\ ~LockCall(t) /\ ~RemoveCall(t)
  BY <1>2 DEF OpenCall, LockCall, RemoveCall
<1>4. thread[t].at \notin {"getting", "opening", "adding", "linking", "lockRefused", "validate", "holding",
                           "refused", "locked", "notify", "callback", "finish"}
  BY <1>1, <1>2 DEF Shape, Role
<1>5. /\ ~Get(t) /\ ~GetLost(t) /\ ~Register(t) /\ ~AddActive(t) /\ ~LinkActive(t) /\ ~LockAgain(t) /\ ~Validate(t)
      /\ ~Release(t) /\ ~RemoveAgain(t) /\ ~Yield(t) /\ ~Notify(t) /\ ~AddClosed(t) /\ ~Finish(t)
  BY <1>4 DEF Get, GetLost, Register, AddActive, LinkActive, LockAgain, Validate, Release, RemoveAgain, Yield, Notify,
              AddClosed, Finish
<1>6. ASSUME NEW k \in Calls, thread' = [thread EXCEPT ![t] = k] PROVE thread'[t] = k
  BY <1>1, <1>6
<1>7. ~EventCall(t)
  <2> SUFFICES ASSUME EventCall(t) PROVE FALSE
    OBVIOUS
  <2>1. PICK c \in Clients : thread' = [thread EXCEPT ![t] = ToLock([NoCall EXCEPT !.pc = c], Only(1), "event", "eventRefused")]
    BY ClientsAssumption DEF EventCall, Only
  <2> DEFINE k == [NoCall EXCEPT !.pc = c]
             j == ToLock(k, Only(1), "event", "eventRefused")
  <2>2. k \in Calls
    BY NoCallIs DEF Calls
  <2>3. Only(1) \in Seq(Channels) /\ "event" \in Places /\ "eventRefused" \in Places
    BY WordsAre DEF Places
  <2>4. thread' = [thread EXCEPT ![t] = j]
    BY <2>1
  <2>5. j.at = "locking"
    <3> HIDE DEF k
    <3> QED BY <2>2, <2>3, ToLockIs
  <2> HIDE DEF j
  <2> QED BY <1>1, <2>4, <2>5
<1>8. ~LockEnter(t) /\ ~LockBusy(t) /\ ~LockCheck(t)
  <2>1. ~LockEnter(t)
    <3>1. At(thread[t], "verifying").at = "verifying"
      BY <1>1, AtIs DEF Places
    <3> QED BY <1>1, <3>1 DEF LockEnter, GoTo
  <2>2. thread[t].at \in {"locking", "verifying"} => Refused(thread[t]).at # "entering"
    BY <1>1, RefusedIs
  <2>3. ~LockBusy(t)
    BY <1>1, <2>2 DEF LockBusy
  <2>4. ~LockCheck(t)
    <3> SUFFICES ASSUME LockCheck(t) PROVE FALSE
      OBVIOUS
    <3> DEFINE at == IF Len(thread[t].todo) = 1 THEN thread[t].ok ELSE "locking"
               k == [thread[t] EXCEPT !.todo = Tail(@), !.done = Append(@, Head(thread[t].todo)), !.at = at]
    <3>1. thread[t].at = "verifying" /\ thread[t].ok # "entering"
      BY <1>1 DEF LockCheck, Shape, Locking
    <3>2. k.at = at
      BY <1>1 DEF Calls
    <3>3. thread' = [thread EXCEPT ![t] = k] \/ thread' = [thread EXCEPT ![t] = Refused(@)]
      BY <1>1 DEF LockCheck
    <3>4. at # "entering"
      BY <3>1
    <3> HIDE DEF k, at
    <3> QED BY <1>1, <2>2, <3>1, <3>2, <3>3, <3>4
  <2> QED BY <2>1, <2>3, <2>4
<1>9. ~UnlockLeave(t) /\ ~UnlockTest(t) /\ ~Recheck(t) /\ ~Recycle(t)
  <2>1. At(thread[t], "unlocked").at = "unlocked" /\ At(thread[t], "recheck").at = "recheck"
        /\ At(thread[t], "clearing").at = "clearing"
    BY <1>1, AtIs DEF Places
  <2>2. thread[t].at \in {"unlocked", "recheck", "clearing"} => Unlocked(thread[t]).at # "entering"
    BY <1>1, UnlockedIs
  <2>3. ~UnlockLeave(t)
    BY <1>1, <2>1, NoCallIs DEF UnlockLeave, Trap, GoTo
  <2>4. ~UnlockTest(t)
    BY <1>1, <2>1, <2>2 DEF UnlockTest
  <2>5. ~Recheck(t)
    BY <1>1, <2>1, <2>2 DEF Recheck, GoTo
  <2>6. ~Recycle(t)
    BY <1>1, <2>2 DEF Recycle
  <2> QED BY <2>3, <2>4, <2>5, <2>6
<1>10. ~EnterRemove(t)
  <2> SUFFICES ASSUME EnterRemove(t) PROVE FALSE
    OBVIOUS
  <2>1. Onward(thread[t], t).at # "entering"
    BY <1>1, OnwardIs DEF EnterRemove
  <2>2. ToLock(thread[t], <<0, 1>>, "locked", "refused").at # "entering"
    BY <1>1 DEF ToLock, Calls
  <2> QED BY <1>1, <2>1, <2>2 DEF EnterRemove
<1>11. ~Terminate(t)
  <2>1. Terminated(thread[t], t).at # "entering"
    BY <1>1, AtIs DEF Terminated, Places
  <2> QED BY <1>1, <2>1 DEF Terminate, Calls
<1>12. ~LeaveNetwork(t)
  <2>1. At(thread[t], "unmark").at # "entering" /\ At(thread[t], "idle").at # "entering"
    BY <1>1, AtIs DEF Places
  <2> QED BY <1>1, <2>1 DEF LeaveNetwork, GoTo
<1>13. ~EventAgain(t)
  <2>1. At(thread[t], "locking").at # "entering" /\ At(thread[t], "event").at # "entering"
    BY <1>1, AtIs DEF Places
  <2> QED BY <1>1, <2>1 DEF EventAgain, GoTo
<1>14. \A k \in Calls : Dropped(k).at # "entering"
  BY NoCallIs DEF Dropped, ToUnlock, Calls
<1>15. ~EventFlags(t) /\ ~Read(t) /\ ~Unmark(t)
  <2>1. ~Read(t) /\ ~Unmark(t)
    BY <1>1, <1>14 DEF Read, Unmark
  <2>2. ~EventFlags(t)
    <3> DEFINE call == [thread[t] EXCEPT !.locked = thread[t].done # <<>>]
    <3>1. call \in Calls
      BY <1>1 DEF Calls
    <3>2. Dropped(call).at # "entering" /\ At(call, "eventSocket").at # "entering"
      <4> HIDE DEF call
      <4> QED BY <1>14, <3>1, AtIs DEF Places
    <3> QED BY <1>1, <3>2 DEF EventFlags
  <2> QED BY <2>1, <2>2
<1>16. EventSocket(t)
  BY <1>3, <1>5, <1>7, <1>8, <1>9, <1>10, <1>11, <1>12, <1>13, <1>15 DEF Call, Step
<1>17. /\ At(thread[t], "entering").pc = thread[t].pc /\ At(thread[t], "reading").at = "reading"
       /\ ToUnlock(thread[t], <<1>>, "idle").at # "entering" /\ Dropped(thread[t]).at # "entering"
  <2>1. At(thread[t], "entering").pc = thread[t].pc /\ At(thread[t], "reading").at = "reading"
    BY <1>1, AtIs DEF Places
  <2> QED BY <1>1, <1>14, <2>1 DEF ToUnlock, Calls
<1> QED BY <1>1, <1>16, <1>17 DEF EventSocket

\* Where nothing is opened, closing stays orderly: what an event closes is closed already, and no
\* client becomes active again.
LEMMA NoOpensIsOrderly ==
  ASSUME Inv, Orderly, Openers = {}, [Next]_vars
  PROVE  Orderly'
<1>1. UndisturbedOpen'
  BY DEF UndisturbedOpen
<1>2. CASE UNCHANGED vars
  BY <1>1, <1>2 DEF Orderly, NoLateClose, vars, state
<1>3. ASSUME NEW t \in Threads, Call(t) \/ Step(t) PROVE NoLateClose'
  <2>1. ~fault /\ FlagInv /\ Typed /\ ShapeInv
    BY <1>3, FaultStops DEF Inv, Working
  <2> SUFFICES ASSUME NEW u \in EventThreads, thread'[u].at = "entering"
               PROVE  "CF_ACTIVE" \notin flags'[thread'[u].pc]
    BY DEF NoLateClose
  <2>2. CASE u = t
    <3>1. /\ EventSocket(t) /\ thread'[t].pc = thread[t].pc /\ "CF_CLOSED" \in flags[thread[t].pc]
      BY <1>3, <2>1, <2>2, EventEnters
    <3>2. thread[t].pc \in Clients
      BY <2>1, <3>1 DEF EventSocket, ShapeInv, Shape, Role
    <3>3. "CF_ACTIVE" \notin flags[thread[t].pc]
      BY <2>1, <3>1, <3>2 DEF FlagInv, CF_STATEFLAGS
    <3>4. flags' = flags
      BY <3>1 DEF EventSocket, state
    <3> QED BY <2>2, <3>1, <3>3, <3>4
  <2>3. CASE u # t
    <3>1. u \in Threads \ {t}
      BY <2>3 DEF Threads
    <3>2. thread'[u] = thread[u]
      BY <1>3, <3>1, OthersStay, NoCallIs
    <3>3. thread[u].pc \in Clients /\ "CF_ACTIVE" \notin flags[thread[u].pc]
      BY <2>1, <3>1, <3>2 DEF ShapeInv, Shape, Role, Orderly, NoLateClose
    <3> QED BY <1>3, <2>1, <3>2, <3>3, ActiveBefore
  <2> QED BY <2>2, <2>3
<1> QED BY <1>1, <1>2, <1>3 DEF Next, Orderly

\* Then it is all orderly, without further assumption, whatever the number of clients, of lockers and,
\* where nothing is opened, of threads that close and of network threads.
THEOREM OrderlyAlone ==
  ASSUME OpensAlone
  PROVE  Spec => [](Inv /\ Orderly)
<1>1. Init => Inv /\ Orderly
  <2> SUFFICES ASSUME Init PROVE Inv /\ Orderly
    OBVIOUS
  <2>1. \A t \in Threads : thread[t].at = "idle"
    BY NoCallIs DEF Init
  <2> QED BY <2>1, InitKeeps DEF Orderly, NoLateClose, UndisturbedOpen, Threads
<1>2. Inv /\ Orderly /\ [Next]_vars => Inv'
  BY NextKeeps
<1>3. CASE Openers = {}
  <2>1. Inv /\ Orderly /\ [Next]_vars => Orderly'
    BY <1>3, NoOpensIsOrderly
  <2> QED BY <1>1, <1>2, <2>1, PTL DEF Spec
<1>4. CASE OneMover /\ EventThreads = {}
  <2>1. Inv => Orderly
    BY <1>4, OneMoverIsOrderly
  <2> QED BY <1>1, <1>2, <2>1, PTL DEF Spec
<1> QED BY <1>3, <1>4 DEF OpensAlone

\* Each of the lists of available, active and closed clients ends, holds the clients that have its
\* flag, and each can be taken out of it (GrabClient, AddAvailable, AddActive and AddClosed keep next and
\* me so), however many lockers defer recycles meanwhile, and, where nothing is opened, however many
\* threads and events close clients, until the process traps.
THEOREM ListsAlwaysIntact ==
  ASSUME OpensAlone
  PROVE  Spec => [](NoTrap => ListsIntact)
<1>1. Inv => (NoTrap => ListsIntact)
  BY ListsIntactHere
<1>2. Spec => [](Inv /\ Orderly)
  BY OrderlyAlone
<1> QED BY <1>1, <1>2, PTL

\* A client that GetFreeNetworkClient has given out stays the thread's own until it is open - it is not
\* recycled, and both its sections are the thread's - where that thread alone opens and closes, whatever
\* the lockers did with the client before (their looks at recyclePending, network.c:1379-1389, come late).
THEOREM FreshIsAlwaysOpen ==
  ASSUME OneMover, EventThreads = {}
  PROVE  Spec => []FreshIsOpen
<1>1. Inv => FreshIsOpen
  BY FreshIsOpenHere
<1>2. Spec => [](Inv /\ Orderly)
  BY OrderlyAlone DEF OpensAlone
<1> QED BY <1>1, <1>2, PTL

\* Where one thread calls RemoveClient it never tries, with csNetwork, for the section of an active
\* client that a thread has which waits for csNetwork (neither would ever go on), whatever lockers, and
\* network threads where nothing is opened, do.
THEOREM NeverCrossedWait ==
  ASSUME OpensAlone, OneCloser
  PROVE  Spec => []NoCrossedWait
<1>1. Inv /\ Orderly => NoCrossedWait
  BY NoCrossedWaitHere
<1>2. Spec => [](Inv /\ Orderly)
  BY OrderlyAlone
<1> QED BY <1>1, <1>2, PTL

\* Without read events every section is left by the thread that owns it, and no link that AddActive
\* follows is NULL: the process does not trap.
LEMMA NeverTraps ==
  ASSUME OpensAlone, EventThreads = {}
  PROVE  Spec => []NoTrap
<1>1. Init => NoTrap
  BY DEF Init, NoTrap
<1>2. Inv /\ Orderly /\ NoTrap /\ [Next]_vars => NoTrap'
  BY TrapsNot
<1>3. Spec => [](Inv /\ Orderly)
  BY OrderlyAlone
<1> QED BY <1>1, <1>2, <1>3, PTL DEF Spec

\* What the runs check of the lists and the threads, together.  The lists need no proviso where there
\* are no read events, as nothing traps then.
SafeState ==
  /\ TypeOK
  /\ HeldIsMeant
  /\ FreshIsOpen
  /\ PendingHasRecycler
  /\ (NoTrap \/ EventThreads = {} => ListsIntact)
  /\ (OneCloser => NoCrossedWait)

\* Where no client is opened while others are closed - one thread opens and closes and there are no read
\* events, or nothing is opened - the types are right, the lists are intact, what is held is meant, what
\* is fresh is open and what is pending has its recycler; and no wait is crossed if one thread calls
\* RemoveClient.
THEOREM SafeAlone ==
  ASSUME OpensAlone
  PROVE  Spec => []SafeState
<1>1. ASSUME Inv, Orderly, EventThreads = {} => NoTrap
      PROVE  SafeState
  <2>1. PendingHasRecycler
    BY <1>1 DEF Inv, Working, PendingHasRecycler
  <2>2. NoTrap \/ EventThreads = {} => ListsIntact
    BY <1>1, ListsIntactHere
  <2> QED BY <1>1, <2>1, <2>2, TypeCorrectHere, HeldIsMeantHere, FreshIsOpenHere, NoCrossedWaitHere DEF SafeState
<1>2. Spec => [](Inv /\ Orderly)
  BY OrderlyAlone
<1>3. CASE EventThreads = {}
  <2>1. Spec => []NoTrap
    BY <1>3, NeverTraps
  <2>2. Inv /\ Orderly /\ NoTrap => SafeState
    BY <1>1
  <2> QED BY <1>2, <2>1, <2>2, PTL
<1>4. CASE EventThreads # {}
  <2>1. Inv /\ Orderly => SafeState
    BY <1>1, <1>4
  <2> QED BY <1>2, <2>1, PTL
<1> QED BY <1>3, <1>4
=============================================================================
