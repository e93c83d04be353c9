------------------------------- MODULE MCSets -------------------------------
(* A small instance of Sets for TLC. *)
EXTENDS Sets

MCClients == {"units", "indexed"}

\* Three blocks for the order of the biases; two, of which one is found by the wrong
\* bits, for the caller that uses indexes.
MCMaxBlocks == [c \in Clients |-> IF c = "units" THEN 3 ELSE 2]
MCIndexes   == [c \in Clients |-> 0..(PerSet * MCMaxBlocks[c] - 1)]
=============================================================================
