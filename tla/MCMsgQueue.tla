----------------------------- MODULE MCMsgQueue -----------------------------
(* Small instances of MsgQueue for TLC. *)
EXTENDS MsgQueue

CONSTANTS w, r0, r1, r2

\* Reader r0 asks for any message, r1 and r2 for one ID each, and no two for the same.
MCWaits == [r \in Readers |-> CASE r = r0 -> {AnyID} [] r = r1 -> {1} [] r = r2 -> {2}]

\* Buffers that hold every message, and one that holds only the smaller ones of two.
MCLarge == [r \in Readers |-> Size]
MCSmall == [r \in Readers |-> IF r = r1 THEN Header + 2 ELSE Size]
=============================================================================
