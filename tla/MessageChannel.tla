--------------------------- MODULE MessageChannel ---------------------------
(***************************************************************************)
(* What a message queue promises its users, without the ring it is kept    *)
(* in: messages arrive in the order in which they were sent among those    *)
(* that a call asks for, once, and as they were sent; the oldest may       *)
(* expire; and a call that finds nothing found nothing to be had.          *)
(* MsgQueue implements it.                                                 *)
(***************************************************************************)
EXTENDS Naturals, Sequences, SequencesExt

CONSTANTS
  Readers,   \* the threads that receive
  IDs,       \* the IDs a message may have
  Messages,  \* the messages, records with an id
  AnyID,     \* the ID that asks for any message
  Pending, NoMessage, TooBig  \* the other results of a call

VARIABLES
  chan,   \* the messages that are under way, oldest first
  asked,  \* [reader] the ID it asks for, or asked for last
  got     \* [reader] what its last call returned

Init ==
  /\ chan = <<>>
  /\ asked = [r \in Readers |-> AnyID]
  /\ got = [r \in Readers |-> NoMessage]

Wanted(r) == SelectInSeq(chan, LAMBDA m : asked[r] \in {AnyID, m.id})

Send == \E m \in Messages : chan' = Append(chan, m) /\ UNCHANGED <<asked, got>>

Expire == chan # <<>> /\ chan' = Tail(chan) /\ UNCHANGED <<asked, got>>

Call(r) ==
  /\ got[r] # Pending
  /\ \E id \in IDs \cup {AnyID} : asked' = [asked EXCEPT ![r] = id]
  /\ got' = [got EXCEPT ![r] = Pending]
  /\ UNCHANGED chan

Receive(r) ==
  /\ got[r] = Pending /\ Wanted(r) # 0
  /\ got' = [got EXCEPT ![r] = chan[Wanted(r)]]
  /\ chan' = RemoveAt(chan, Wanted(r))
  /\ UNCHANGED asked

Refuse(r) ==
  /\ got[r] = Pending
  /\ got' = [got EXCEPT ![r] = IF Wanted(r) = 0 THEN NoMessage ELSE TooBig]
  /\ UNCHANGED <<chan, asked>>

Next == Send \/ Expire \/ \E r \in Readers : Call(r) \/ Receive(r) \/ Refuse(r)

Spec == Init /\ [][Next]_<<chan, asked, got>>
=============================================================================
