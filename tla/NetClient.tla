------------------------------ MODULE NetClient ------------------------------
(***************************************************************************)
(* The clients of SACK's network layer (netlib/network.c): records that    *)
(* are given out from a list of available ones, used under two sections    *)
(* each (the channels 0, csLockWrite, and 1, csLockRead), closed, and      *)
(* recycled by whoever leaves the last section.  UDP sockets are modelled  *)
(* (netlib/udpnetwork.c), with the read events of the Linux build          *)
(* (netlib/network_linux.c): their close goes the whole way through        *)
(* RemoveClient, where a connected TCP socket's only shuts it down.        *)
(*                                                                         *)
(* A section excludes (CriticalSection shows it), so it is its owner and   *)
(* how often it is held.  What is done under csNetwork alone is one step,  *)
(* and several where it reads or writes what others touch without it: the  *)
(* flags, the counts of the sections, and the list of active clients.      *)
(*                                                                         *)
(* Left out: TCP's writes (bWriteOnUnlock, wakeOnUnlock, CF_TOCLOSE),      *)
(* write events, opens that fail, closes that block the notice,            *)
(* CF_CONNECT_WAITING.  What an application does in a callback is not      *)
(* modelled: it changes nothing.                                           *)
(***************************************************************************)
EXTENDS Naturals, Sequences, FiniteSets

CONSTANTS
  Clients,       \* the clients (a bound: the code adds a slab when all are in use)
  Openers,       \* the threads that open sockets
  Closers,       \* those that call RemoveClient
  Lockers,       \* those that lock a client, with a serial they have kept
  EventThreads,  \* the network threads
  Active,        \* the clients that are open at the beginning, in the list's order
  Available,     \* those that are available, in the list's order
  Readable,      \* those that get read events
  MaxOpens,      \* bound: how many sockets are opened
  None           \* no client, no thread

Threads  == Openers \cup Closers \cup Lockers \cup EventThreads
Channels == {0, 1}
Lists    == {"AvailableClients", "ActiveClients", "ClosedClients"}
CF_STATEFLAGS == {"CF_AVAILABLE", "CF_ACTIVE", "CF_CLOSED"}

ASSUME ClientsAssumption ==
  /\ IsFiniteSet(Clients) /\ None \notin Clients \cup Threads \cup Lists
  /\ Clients \cap Lists = {}
  /\ Active \in Seq(Clients) /\ Available \in Seq(Clients)
  /\ LET all == Active \o Available IN
     /\ Clients = {all[i] : i \in DOMAIN all}
     /\ \A i, j \in DOMAIN all : all[i] = all[j] => i = j
  /\ Readable \subseteq Clients /\ MaxOpens \in Nat
  /\ EventThreads \cap (Openers \cup Closers \cup Lockers) = {}

VARIABLES
  next,          \* [list] its first client, and [client] the one after it
  me,            \* [client] whose next leads to it: a list or a client
  flags,         \* [client] the flags of dwFlags that are set
  socket,        \* [client] it has a socket, which is registered for events
  serial,        \* [client] the connection generation
  recyclePending,\* [client] the last unlock is to recycle it
  csLock,        \* [client][channel] its sections
  csNetwork,     \* the section of the lists
  thread,        \* [thread] the call it is in
  opens,         \* how many sockets have been opened
  connection,    \* [client] which of them it is, or was last
  fault          \* the process has trapped, and ended

lists == <<next, me>>
state == <<flags, socket, serial, recyclePending>>
history == <<opens, connection>>
vars == <<lists, state, csLock, csNetwork, thread, history, fault>>

Places == {"idle",
           "locking", "verifying", "unlocking", "unlocked", "recheck", "clearing",
           "getting", "opening", "adding", "linking",
           "lockRefused", "validate", "holding",
           "entering", "refused", "locked", "notify", "callback", "finish", "terminate", "leave",
           "eventRefused", "event", "eventSocket", "reading", "unmark"}

\* A call: pc, its client; serial and connection, what it has kept of it; todo, the
\* channels it is to lock or unlock, done, those it has locked, then ok or no, where
\* it goes on; locked, that a read event has locked its channel.
Calls == [at : Places, pc : Clients \cup {None}, serial : Nat, connection : 0..MaxOpens,
          todo : Seq(Channels), done : Seq(Channels), ok : Places, no : Places,
          locked : BOOLEAN]
NoCall == [at |-> "idle", pc |-> None, serial |-> 0, connection |-> 0,
           todo |-> <<>>, done |-> <<>>, ok |-> "idle", no |-> "idle",
           locked |-> FALSE]

Sections == [owner : Threads \cup {None}, locks : Nat]
Blank == [owner |-> None, locks |-> 0]

\* Every variable holds a value of its kind.  A section has an owner while it is
\* held, a client that is to be recycled is closed, and one that is available is not
\* closing (so that GetFreeNetworkClient, which skips those, takes the first).
TypeOK ==
  /\ next \in [Lists \cup Clients -> Clients \cup {None}]
  /\ me \in [Clients -> Lists \cup Clients]
  /\ flags \in [Clients -> SUBSET (CF_STATEFLAGS \cup {"CF_CLOSING"})]
  /\ socket \in [Clients -> BOOLEAN] /\ recyclePending \in [Clients -> BOOLEAN]
  /\ serial \in [Clients -> Nat]
  /\ csLock \in [Clients -> [Channels -> Sections]] /\ csNetwork \in Sections
  /\ \A s \in {csNetwork} \cup {csLock[c][ch] : c \in Clients, ch \in Channels} :
       s.owner = None <=> s.locks = 0
  /\ thread \in [Threads -> Calls]
  /\ opens \in 0..MaxOpens /\ connection \in [Clients -> 0..MaxOpens]
  /\ \A c \in Clients : recyclePending[c] => "CF_CLOSED" \in flags[c]
  /\ \A c \in Clients : "CF_AVAILABLE" \in flags[c] => "CF_CLOSING" \notin flags[c]
  /\ fault \in BOOLEAN

\* The links of a client of an initial list: what is at the place after, or before, its own.
After(s, c)     == LET i == CHOOSE i \in 1..Len(s) : s[i] = c IN
                   IF i = Len(s) THEN None ELSE s[i + 1]
Before(l, s, c) == LET i == CHOOSE i \in 1..Len(s) : s[i] = c IN
                   IF i = 1 THEN l ELSE s[i - 1]
First(s)        == IF s = <<>> THEN None ELSE s[1]
Open            == {Active[i] : i \in 1..Len(Active)}

Init ==
  /\ next = [x \in Lists \cup Clients |->
               CASE x = "AvailableClients" -> First(Available)
                 [] x = "ActiveClients"    -> First(Active)
                 [] x = "ClosedClients"    -> None
                 [] x \in Open             -> After(Active, x)
                 [] OTHER                  -> After(Available, x)]
  /\ me = [c \in Clients |-> IF c \in Open THEN Before("ActiveClients", Active, c)
                             ELSE Before("AvailableClients", Available, c)]
  /\ flags = [c \in Clients |-> IF c \in Open THEN {"CF_ACTIVE"} ELSE {"CF_AVAILABLE"}]
  /\ socket = [c \in Clients |-> c \in Open]
  /\ serial = [c \in Clients |-> 0]
  /\ recyclePending = [c \in Clients |-> FALSE]
  /\ csLock = [c \in Clients |-> [ch \in Channels |-> Blank]] /\ csNetwork = Blank
  /\ thread = [t \in Threads |-> NoCall]
  /\ opens = 0 /\ connection = [c \in Clients |-> 0]
  /\ fault = FALSE

-----------------------------------------------------------------------------
(***************************************************************************)
(* Sections and lists.                                                     *)
(***************************************************************************)
Free(s, t)    == s.owner \in {None, t}
Entered(s, t) == [owner |-> t, locks |-> s.locks + 1]
Left(s)       == IF s.locks = 1 THEN Blank ELSE [s EXCEPT !.locks = @ - 1]
Held(c)       == \E ch \in Channels : csLock[c][ch].locks > 0

\* GrabClient: whatever led to c leads to the client after it.
Grabbed(c) ==
  [next |-> [next EXCEPT ![me[c]] = next[c]],
   me   |-> IF next[c] = None THEN me ELSE [me EXCEPT ![next[c]] = me[c]]]

\* AddAvailable and AddClosed: c is linked in at the head of list l.
Added(links, l, c) ==
  LET h == links.next[l] IN
  [next |-> [links.next EXCEPT ![c] = h, ![l] = c],
   me   |-> IF h = None THEN [links.me EXCEPT ![c] = l]
            ELSE [[links.me EXCEPT ![c] = l] EXCEPT ![h] = c]]

\* (Mutation) It is not taken out of the list it is in.
MoveToUngrabbed(l, c) ==
  LET links == Added([next |-> next, me |-> me], l, c) IN next' = links.next /\ me' = links.me

MoveTo(l, c) ==
  LET links == Added(Grabbed(c), l, c) IN next' = links.next /\ me' = links.me

\* AddClosed(GrabClient(c)): what was kept of the connection is not valid any more.
CloseClient(c) ==
  /\ MoveTo("ClosedClients", c)
  /\ serial' = [serial EXCEPT ![c] = @ + 1]
  /\ flags' = [flags EXCEPT ![c] = (@ \ CF_STATEFLAGS) \cup {"CF_CLOSED"}]

\* (Mutation) The serial is cleared with the rest of the client.
RecycleAnew(c) ==
  /\ MoveTo("AvailableClients", c)
  /\ flags' = [flags EXCEPT ![c] = {"CF_AVAILABLE"}]
  /\ socket' = [socket EXCEPT ![c] = FALSE]
  /\ recyclePending' = [recyclePending EXCEPT ![c] = FALSE]
  /\ serial' = [serial EXCEPT ![c] = 0]

\* (Mutation) It goes on being one that closes.
RecycleClosing(c) ==
  /\ MoveTo("AvailableClients", c)
  /\ flags' = [flags EXCEPT ![c] = (@ \ CF_STATEFLAGS) \cup {"CF_AVAILABLE"}]
  /\ socket' = [socket EXCEPT ![c] = FALSE]
  /\ recyclePending' = [recyclePending EXCEPT ![c] = FALSE]
  /\ UNCHANGED serial

\* ClearClient and AddAvailable(GrabClient(c)).
RecycleClient(c) ==
  /\ MoveTo("AvailableClients", c)
  /\ flags' = [flags EXCEPT ![c] = {"CF_AVAILABLE"}]
  /\ socket' = [socket EXCEPT ![c] = FALSE]
  /\ recyclePending' = [recyclePending EXCEPT ![c] = FALSE]
  /\ UNCHANGED serial

NetworkClientValid(c, s) ==
  "CF_ACTIVE" \in flags[c] /\ "CF_CLOSED" \notin flags[c] /\ serial[c] = s

-----------------------------------------------------------------------------
(***************************************************************************)
(* NetworkLock and NetworkUnlock, as parts of a call.                      *)
(***************************************************************************)
At(call, place) == IF place = "idle" THEN NoCall ELSE [call EXCEPT !.at = place]
GoTo(t, place) == thread' = [thread EXCEPT ![t] = At(@, place)]

\* The call goes on by locking, or unlocking, the channels of s in turn.
ToLock(call, s, ok, no) ==
  [call EXCEPT !.at = "locking", !.todo = s, !.done = <<>>, !.ok = ok, !.no = no]
ToUnlock(call, s, ok) ==
  [call EXCEPT !.at = "unlocking", !.todo = s, !.done = <<>>, !.ok = ok]

\* The channel could not be locked: those that were locked before it are unlocked.
Refused(call) ==
  IF call.done = <<>> THEN At(call, call.no)
  ELSE ToUnlock(call, call.done, call.no)

LockEnter(t) ==
  LET c == thread[t].pc  ch == Head(thread[t].todo) IN
  /\ thread[t].at = "locking" /\ Free(csLock[c][ch], t)
  /\ csLock' = [csLock EXCEPT ![c][ch] = Entered(@, t)]
  /\ GoTo(t, "verifying")
  /\ UNCHANGED <<lists, state, csNetwork, history, fault>>

\* The section was found held, up to ten times.
LockBusy(t) ==
  LET c == thread[t].pc  ch == Head(thread[t].todo) IN
  /\ thread[t].at = "locking" /\ ~Free(csLock[c][ch], t)
  /\ thread' = [thread EXCEPT ![t] = Refused(@)]
  /\ UNCHANGED <<lists, state, csLock, csNetwork, history, fault>>

\* The client may have become inactive by the time the section is entered.
LockCheck(t) ==
  LET c == thread[t].pc  todo == thread[t].todo IN
  /\ thread[t].at = "verifying"
  /\ IF flags[c] \cap {"CF_ACTIVE", "CF_CLOSED"} # {}
     THEN /\ thread' = [thread EXCEPT ![t].todo = Tail(@), ![t].done = Append(@, Head(todo)),
                                      ![t].at = IF Len(todo) = 1 THEN thread[t].ok ELSE "locking"]
          /\ UNCHANGED csLock
     ELSE /\ thread' = [thread EXCEPT ![t] = Refused(@)]
          /\ csLock' = [csLock EXCEPT ![c][Head(todo)] = Left(@)]
  /\ UNCHANGED <<lists, state, csNetwork, history, fault>>

\* The process ends.
Trap == fault' = TRUE /\ thread' = [t \in Threads |-> NoCall]

\* LeaveCriticalSec traps when the section is not the thread's own.
UnlockLeave(t) ==
  LET c == thread[t].pc  ch == Head(thread[t].todo) IN
  /\ thread[t].at = "unlocking"
  /\ IF csLock[c][ch].owner = t
     THEN csLock' = [csLock EXCEPT ![c][ch] = Left(@)] /\ GoTo(t, "unlocked") /\ UNCHANGED fault
     ELSE Trap /\ UNCHANGED csLock
  /\ UNCHANGED <<lists, state, csNetwork, history>>

\* NetworkUnlock is done with the channel.
Unlocked(call) ==
  IF Len(call.todo) > 1 THEN ToUnlock(call, Tail(call.todo), call.ok)
  ELSE At([call EXCEPT !.todo = <<>>], call.ok)

Due(c) == recyclePending[c] /\ ~Held(c)

\* (Mutation) Only the unlock of the write channel looks whether a recycling is due.
UnlockTestWrite(t) ==
  /\ thread[t].at = "unlocked"
  /\ thread' = [thread EXCEPT ![t] = IF Due(thread[t].pc) /\ Head(@.todo) = 0
                                   THEN At(@, "recheck") ELSE Unlocked(@)]
  /\ UNCHANGED <<lists, state, csLock, csNetwork, history, fault>>

UnlockTest(t) ==
  /\ thread[t].at = "unlocked"
  /\ thread' = [thread EXCEPT ![t] = IF Due(thread[t].pc) THEN At(@, "recheck") ELSE Unlocked(@)]
  /\ UNCHANGED <<lists, state, csLock, csNetwork, history, fault>>

\* (Mutation) It is not looked at again under csNetwork.
RecycleUnchecked(t) ==
  /\ thread[t].at = "recheck" /\ Free(csNetwork, t)
  /\ csNetwork' = Entered(csNetwork, t)
  /\ recyclePending' = [recyclePending EXCEPT ![thread[t].pc] = FALSE]
  /\ GoTo(t, "clearing")
  /\ UNCHANGED <<lists, flags, socket, serial, csLock, history, fault>>

\* Another thread may have recycled the client, or locked it.
Recheck(t) ==
  LET c == thread[t].pc IN
  /\ thread[t].at = "recheck" /\ Free(csNetwork, t)
  /\ IF Due(c)
     THEN /\ csNetwork' = Entered(csNetwork, t)
          /\ recyclePending' = [recyclePending EXCEPT ![c] = FALSE]
          /\ GoTo(t, "clearing")
     ELSE /\ thread' = [thread EXCEPT ![t] = Unlocked(@)]
          /\ UNCHANGED <<csNetwork, recyclePending>>
  /\ UNCHANGED <<lists, flags, socket, serial, csLock, history, fault>>

\* Without another look at the sections, which a thread may enter meanwhile.
Recycle(t) ==
  /\ thread[t].at = "clearing"
  /\ RecycleClient(thread[t].pc)
  /\ csNetwork' = Left(csNetwork)
  /\ thread' = [thread EXCEPT ![t] = Unlocked(@)]
  /\ UNCHANGED <<csLock, history, fault>>


-----------------------------------------------------------------------------
(***************************************************************************)
(* Opening a UDP socket.                                                   *)
(***************************************************************************)
OpenCall(t) ==
  /\ t \in Openers /\ thread[t].at = "idle" /\ ~fault /\ opens < MaxOpens
  /\ opens' = opens + 1
  /\ thread' = [thread EXCEPT ![t].at = "getting", ![t].connection = opens + 1]
  /\ UNCHANGED <<lists, state, csLock, csNetwork, connection, fault>>

\* GetFreeNetworkClient takes the first client, with both of its sections.  (A bound:
\* when there is none, it waits, where the code makes more.)
Get(t) ==
  LET c == next["AvailableClients"] IN
  /\ thread[t].at = "getting" /\ Free(csNetwork, t) /\ c # None
  /\ \A ch \in Channels : Free(csLock[c][ch], t)
  /\ next' = Grabbed(c).next /\ me' = Grabbed(c).me
  /\ flags' = [flags EXCEPT ![c] = {}]
  /\ recyclePending' = [recyclePending EXCEPT ![c] = FALSE]
  /\ csLock' = [csLock EXCEPT ![c] = [ch \in Channels |-> Entered(@[ch], t)]]
  /\ thread' = [thread EXCEPT ![t].at = "opening", ![t].pc = c]
  /\ connection' = [connection EXCEPT ![c] = thread[t].connection]
  /\ UNCHANGED <<socket, serial, csNetwork, opens, fault>>

\* A section of the first client is another's: it is taken off the list for nothing.
GetLost(t) ==
  LET c == next["AvailableClients"] IN
  /\ thread[t].at = "getting" /\ Free(csNetwork, t) /\ c # None
  /\ \E ch \in Channels : ~Free(csLock[c][ch], t)
  /\ next' = Grabbed(c).next /\ me' = Grabbed(c).me
  /\ flags' = [flags EXCEPT ![c] = @ \ CF_STATEFLAGS]
  /\ UNCHANGED <<socket, serial, recyclePending, csLock, csNetwork, thread, history, fault>>

Register(t) ==
  /\ thread[t].at = "opening"
  /\ socket' = [socket EXCEPT ![thread[t].pc] = TRUE]
  /\ GoTo(t, "adding")
  /\ UNCHANGED <<lists, flags, serial, recyclePending, csLock, csNetwork, history, fault>>

\* AddActive, which is not done under csNetwork: the client gets its links.
AddActive(t) ==
  LET c == thread[t].pc IN
  /\ thread[t].at = "adding"
  /\ flags' = [flags EXCEPT ![c] = @ \cup {"CF_ACTIVE"}]
  /\ me' = [me EXCEPT ![c] = "ActiveClients"]
  /\ next' = [next EXCEPT ![c] = next["ActiveClients"]]
  /\ GoTo(t, "linking")
  /\ UNCHANGED <<socket, serial, recyclePending, csLock, csNetwork, history, fault>>

\* Then the list gets it.  The head whose me is set is the one that was read before,
\* or is read again: NULL, if it has been grabbed meanwhile.
LinkActive(t) ==
  LET c == thread[t].pc IN
  /\ thread[t].at = "linking"
  /\ \E h \in {next[c], next["ActiveClients"]} :
       IF next[c] # None /\ h = None
       THEN Trap /\ UNCHANGED lists
       ELSE /\ me' = IF next[c] = None THEN me ELSE [me EXCEPT ![h] = c]
            /\ next' = [next EXCEPT !["ActiveClients"] = c]
            /\ thread' = [thread EXCEPT ![t] = ToUnlock(@, <<0, 1>>, "idle")]
            /\ UNCHANGED fault
  /\ UNCHANGED <<state, csLock, csNetwork, history>>

-----------------------------------------------------------------------------
(***************************************************************************)
(* Locking a client whose serial was kept (as TCPConnectTimeout does).     *)
(***************************************************************************)
LockCall(t) ==
  /\ t \in Lockers /\ thread[t].at = "idle" /\ ~fault
  /\ \E c \in Clients, ch \in Channels :
       /\ NetworkClientValid(c, serial[c])
       /\ thread' = [thread EXCEPT ![t] =
            ToLock([NoCall EXCEPT !.pc = c, !.serial = serial[c], !.connection = connection[c]],
                   <<ch>>, "validate", "lockRefused")]
  /\ UNCHANGED <<lists, state, csLock, csNetwork, history, fault>>

\* It tries again as long as the connection is the one that is meant.
LockAgain(t) ==
  LET call == thread[t] IN
  /\ call.at = "lockRefused"
  /\ thread' = [thread EXCEPT ![t] = IF NetworkClientValid(call.pc, call.serial)
                                   THEN At(@, "locking") ELSE NoCall]
  /\ UNCHANGED <<lists, state, csLock, csNetwork, history, fault>>

Validate(t) ==
  LET call == thread[t] IN
  /\ call.at = "validate"
  /\ thread' = [thread EXCEPT ![t] =
       IF NetworkClientValid(call.pc, call.serial) THEN At(@, "holding")
       ELSE ToUnlock(@, @.done, "idle")]
  /\ UNCHANGED <<lists, state, csLock, csNetwork, history, fault>>

Release(t) ==
  /\ thread[t].at = "holding"
  /\ thread' = [thread EXCEPT ![t] = ToUnlock(@, @.done, "idle")]
  /\ UNCHANGED <<lists, state, csLock, csNetwork, history, fault>>

-----------------------------------------------------------------------------
(***************************************************************************)
(* RemoveClient, and the close of a client from the network thread.        *)
(***************************************************************************)
RemoveCall(t) ==
  /\ t \in Closers /\ thread[t].at = "idle" /\ ~fault
  /\ \E c \in Clients :
       /\ "CF_ACTIVE" \in flags[c] /\ flags[c] \cap {"CF_CLOSED", "CF_CLOSING"} = {}
       /\ thread' = [thread EXCEPT ![t] = [NoCall EXCEPT !.at = "entering", !.pc = c]]
  /\ UNCHANGED <<lists, state, csLock, csNetwork, history, fault>>

\* InternalRemoveClient is done: RemoveClient locks the client again, and a read
\* event goes on to terminate it.
Onward(call, t) ==
  IF t \in EventThreads THEN At(call, "terminate")
  ELSE ToLock(call, <<0, 1>>, "terminate", "leave")

\* InternalRemoveClient, up to the sections of a client that is active.
EnterRemove(t) ==
  LET c == thread[t].pc  active == "CF_ACTIVE" \in flags[c] IN
  /\ thread[t].at = "entering" /\ Free(csNetwork, t)
  /\ csNetwork' = Entered(csNetwork, t)
  /\ thread' = [thread EXCEPT ![t] =
       IF socket[c] /\ active THEN ToLock(@, <<0, 1>>, "locked", "refused") ELSE Onward(@, t)]
  /\ IF socket[c] /\ flags[c] \cap CF_STATEFLAGS = {}
     THEN CloseClient(c) ELSE UNCHANGED <<lists, serial, flags>>
  /\ UNCHANGED <<socket, recyclePending, csLock, history, fault>>

\* It keeps trying, with csNetwork, as long as the client is active.
RemoveAgain(t) ==
  /\ thread[t].at = "refused"
  /\ thread' = [thread EXCEPT ![t] =
       IF "CF_ACTIVE" \in flags[@.pc] THEN ToLock(@, <<0, 1>>, "locked", "refused")
       ELSE Onward(@, t)]
  /\ UNCHANGED <<lists, state, csLock, csNetwork, history, fault>>

\* csNetwork is left for a moment once the client is locked.
Yield(t) ==
  /\ thread[t].at = "locked"
  /\ csNetwork' = Left(csNetwork)
  /\ GoTo(t, "notify")
  /\ UNCHANGED <<lists, state, csLock, history, fault>>

\* The first to close it has the callback made, without csNetwork.
Notify(t) ==
  LET c == thread[t].pc  closing == "CF_CLOSING" \in flags[c] IN
  /\ thread[t].at = "notify" /\ Free(csNetwork, t)
  /\ flags' = [flags EXCEPT ![c] = @ \cup {"CF_CLOSING"}]
  /\ serial' = IF closing THEN serial ELSE [serial EXCEPT ![c] = @ + 1]
  /\ csNetwork' = IF closing THEN Entered(csNetwork, t) ELSE csNetwork
  /\ GoTo(t, "callback")
  /\ UNCHANGED <<lists, socket, recyclePending, csLock, history, fault>>

\* After the callback the client moves to the closed ones, and is unlocked.
AddClosed(t) ==
  /\ thread[t].at = "callback" /\ Free(csNetwork, t)
  /\ CloseClient(thread[t].pc)
  /\ csNetwork' = IF csNetwork.owner = t THEN csNetwork ELSE Entered(csNetwork, t)
  /\ thread' = [thread EXCEPT ![t] = ToUnlock(@, <<0, 1>>, "finish")]
  /\ UNCHANGED <<socket, recyclePending, csLock, history, fault>>

Finish(t) ==
  /\ thread[t].at = "finish"
  /\ thread' = [thread EXCEPT ![t] = Onward(@, t)]
  /\ UNCHANGED <<lists, state, csLock, csNetwork, history, fault>>

\* TerminateClosedClient is done: RemoveClient unlocks the client.
Terminated(call, t) ==
  IF t \in EventThreads THEN At(call, "leave") ELSE ToUnlock(call, <<0, 1>>, "leave")

\* TerminateClosedClient closes the socket; a client that is still locked is left to
\* whoever unlocks it last.
Terminate(t) ==
  LET c == thread[t].pc  closed == "CF_CLOSED" \in flags[c] IN
  /\ thread[t].at = "terminate"
  /\ socket' = IF closed THEN [socket EXCEPT ![c] = FALSE] ELSE socket
  /\ IF closed /\ ~Held(c)
     THEN /\ csNetwork' = Entered(csNetwork, t)
          /\ thread' = [thread EXCEPT ![t].at = "clearing", ![t].todo = <<>>, ![t].ok = "leave"]
          /\ UNCHANGED recyclePending
     ELSE /\ recyclePending' = IF closed THEN [recyclePending EXCEPT ![c] = TRUE] ELSE recyclePending
          /\ thread' = [thread EXCEPT ![t] = Terminated(@, t)]
          /\ UNCHANGED csNetwork
  /\ UNCHANGED <<lists, flags, serial, csLock, history, fault>>

LeaveNetwork(t) ==
  /\ thread[t].at = "leave"
  /\ csNetwork' = Left(csNetwork)
  /\ GoTo(t, IF t \in EventThreads THEN "unmark" ELSE "idle")
  /\ UNCHANGED <<lists, state, csLock, history, fault>>

-----------------------------------------------------------------------------
(***************************************************************************)
(* The read events of the network thread.                                  *)
(***************************************************************************)
EventCall(t) ==
  /\ t \in EventThreads /\ thread[t].at = "idle" /\ ~fault
  /\ \E c \in Readable :
       /\ socket[c]
       /\ thread' = [thread EXCEPT ![t] =
                       ToLock([NoCall EXCEPT !.pc = c], <<1>>, "event", "eventRefused")]
  /\ UNCHANGED <<lists, state, csLock, csNetwork, history, fault>>

\* It keeps trying as long as the client is active.
EventAgain(t) ==
  /\ thread[t].at = "eventRefused"
  /\ GoTo(t, IF "CF_ACTIVE" \in flags[thread[t].pc] /\ "CF_AVAILABLE" \notin flags[thread[t].pc]
             THEN "locking" ELSE "event")
  /\ UNCHANGED <<lists, state, csLock, csNetwork, history, fault>>

\* The end of an event: the channel is unlocked if it was locked.
Dropped(call) == IF call.locked THEN ToUnlock(call, <<1>>, "idle") ELSE NoCall

EventFlags(t) ==
  LET c == thread[t].pc  call == [thread[t] EXCEPT !.locked = thread[t].done # <<>>] IN
  /\ thread[t].at = "event"
  /\ thread' = [thread EXCEPT ![t] =
       IF flags[c] \cap {"CF_ACTIVE", "CF_CLOSED"} = {} \/ "CF_AVAILABLE" \in flags[c]
       THEN Dropped(call) ELSE At(call, "eventSocket")]
  /\ UNCHANGED <<lists, state, csLock, csNetwork, history, fault>>

\* (Mutation) The event of an open client may close it (a read that fails), waiting
\* for csNetwork with the channel locked.
EventSocketCloses(t) ==
  LET c == thread[t].pc IN
  /\ thread[t].at = "eventSocket"
  /\ thread' = [thread EXCEPT ![t] =
       IF ~socket[c] THEN ToUnlock(@, <<1>>, "idle")
       ELSE IF {"CF_CLOSED", "CF_ACTIVE"} \cap flags[c] # {} THEN At(@, "entering")
       ELSE Dropped(@)]
  /\ UNCHANGED <<lists, state, csLock, csNetwork, history, fault>>

\* A socket that is closed by now: the channel is unlocked whether or not it was locked.
EventSocket(t) ==
  LET c == thread[t].pc IN
  /\ thread[t].at = "eventSocket"
  /\ thread' = [thread EXCEPT ![t] =
       IF ~socket[c] THEN ToUnlock(@, <<1>>, "idle")
       ELSE IF "CF_CLOSED" \in flags[c] THEN At(@, "entering")
       ELSE IF "CF_ACTIVE" \in flags[c] THEN At(@, "reading")
       ELSE Dropped(@)]
  /\ UNCHANGED <<lists, state, csLock, csNetwork, history, fault>>

Read(t) ==
  /\ thread[t].at = "reading"
  /\ thread' = [thread EXCEPT ![t] = Dropped(@)]
  /\ UNCHANGED <<lists, state, csLock, csNetwork, history, fault>>

\* The close is over.
Unmark(t) ==
  /\ thread[t].at = "unmark"
  /\ flags' = [flags EXCEPT ![thread[t].pc] = @ \ {"CF_CLOSING"}]
  /\ thread' = [thread EXCEPT ![t] = Dropped(@)]
  /\ UNCHANGED <<lists, socket, serial, recyclePending, csLock, csNetwork, history, fault>>

-----------------------------------------------------------------------------
Call(t) == OpenCall(t) \/ LockCall(t) \/ RemoveCall(t) \/ EventCall(t)

Step(t) ==
  \/ LockEnter(t) \/ LockBusy(t) \/ LockCheck(t)
  \/ UnlockLeave(t) \/ UnlockTest(t) \/ Recheck(t) \/ Recycle(t)
  \/ Get(t) \/ GetLost(t) \/ Register(t) \/ AddActive(t) \/ LinkActive(t)
  \/ LockAgain(t) \/ Validate(t) \/ Release(t)
  \/ EnterRemove(t) \/ RemoveAgain(t) \/ Yield(t) \/ Notify(t) \/ AddClosed(t)
  \/ Finish(t) \/ Terminate(t) \/ LeaveNetwork(t)
  \/ EventAgain(t) \/ EventFlags(t) \/ EventSocket(t) \/ Read(t) \/ Unmark(t)

Next == \E t \in Threads : Call(t) \/ Step(t)

Spec == Init /\ [][Next]_vars

-----------------------------------------------------------------------------
(***************************************************************************)
(* Properties.                                                             *)
(***************************************************************************)
Flag == [AvailableClients |-> "CF_AVAILABLE", ActiveClients |-> "CF_ACTIVE",
         ClosedClients |-> "CF_CLOSED"]

\* The clients at the places of a list, in order, None after its end.
Chain(l) ==
  LET at[n \in 0..Cardinality(Clients)] ==
        IF n = 0 THEN next[l] ELSE IF at[n - 1] = None THEN None ELSE next[at[n - 1]]
  IN at

Linking(c) == \E t \in Openers : thread[t].at = "linking" /\ thread[t].pc = c

\* Each list ends, holds the clients that have its flag and no other, and every
\* client in it can be taken out: what its me names leads to it.  (A client that
\* AddActive is putting in has the flag already.)
ListsIntact ==
  \A l \in Lists :
    LET chain == Chain(l)
        held  == {chain[n] : n \in DOMAIN chain} \ {None} IN
    /\ chain[Cardinality(Clients)] = None
    /\ held = {c \in Clients : Flag[l] \in flags[c] /\ ~Linking(c)}
    /\ \A c \in held : next[me[c]] = c

\* A thread that has locked a client and found its serial to be the one it kept is
\* using the connection it means, and that stays open until it unlocks.
HeldIsMeant ==
  \A t \in Lockers : thread[t].at = "holding" =>
    /\ NetworkClientValid(thread[t].pc, thread[t].serial)
    /\ connection[thread[t].pc] = thread[t].connection

\* While a client is being opened nobody else closes it, recycles it or holds one
\* of its sections.
FreshIsOpen ==
  \A t \in Openers : thread[t].at \in {"opening", "adding", "linking"} =>
    LET c == thread[t].pc IN
    /\ flags[c] \subseteq {"CF_ACTIVE"} /\ ~recyclePending[c]
    /\ \A ch \in Channels : csLock[c][ch].owner = t

\* It waits for csNetwork, and will do nothing else until it gets it.
WaitsForNetwork(t) ==
  thread[t].at \in {"getting", "recheck", "entering", "notify", "callback"} /\ ~Free(csNetwork, t)

\* RemoveClient keeps csNetwork while it tries for the sections of an active client:
\* whoever has them then does not wait for csNetwork, or both would for ever.
NoCrossedWait ==
  \A t, u \in Threads :
    /\ csNetwork.owner = t /\ thread[t].at \in {"locking", "refused"} /\ thread[t].no = "refused"
    /\ "CF_ACTIVE" \in flags[thread[t].pc]
    /\ WaitsForNetwork(u)
    => \A ch \in Channels : csLock[thread[t].pc][ch].owner # u

\* An available client is not locked (the comment of NetworkUnlockEx: the deferred
\* recycle is what guarantees it).
AvailableUnlocked == \A c \in Clients : "CF_AVAILABLE" \in flags[c] => ~Held(c)

\* No section is left by a thread that does not own it, and no link is NULL (the
\* DebugBreak of LeaveCriticalSecEx is not reached).
NoTrap == ~fault

\* A client whose recycling was put off is not forgotten: it is still locked, or the
\* thread that unlocked it last has yet to look.
PendingHasRecycler ==
  \A c \in Clients : recyclePending[c] /\ ~fault =>
    Held(c) \/ \E t \in Threads : thread[t].pc = c /\ thread[t].at \in {"unlocked", "recheck"}
=============================================================================
