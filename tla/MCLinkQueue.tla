---------------------------- MODULE MCLinkQueue -----------------------------
(* A small instance of LinkQueue for TLC. *)
EXTENDS LinkQueue, TLC

CONSTANTS t1, t2, a, b, b1, b2, b3

\* What threads t1 and t2 may do.
MCSetup(s, e, k, m1, m2) ==
  [sort |-> s, early |-> e, back |-> k,
   may |-> [t \in Threads |-> CASE t = t1 -> m1 [] t = t2 -> m2]]

\* One thread that creates, looks from both ends and deletes; one that puts links and looks
\* from the bottom, and one that takes them; two that do both; and the same for a data
\* queue. The last four are not safe.
MCSetups ==
  { MCSetup("link", FALSE, TRUE, Ops \ {"unque", "empty"}, {}),
    MCSetup("link", FALSE, FALSE, Puts \cup {"peek"}, {"deque"}),
    MCSetup("link", TRUE, FALSE, {"enque", "deque"}, {"preque", "deque"}),
    MCSetup("data", TRUE, FALSE, Ops, {}),
    MCSetup("data", TRUE, FALSE, {"enque", "unque"}, {"deque", "peek", "empty"}),
    MCSetup("link", FALSE, FALSE, {"enque"}, {"enque"}),
    MCSetup("link", TRUE, FALSE, {"enque"}, {"delete"}),
    MCSetup("link", TRUE, FALSE, {"enque"}, {"peek"}),
    MCSetup("link", FALSE, TRUE, {"enque", "peek"}, {"deque"}) }

\* Blocks differ by their names alone.
MCSymmetry == Permutations(Blocks)

MCFirstCnt == [s \in Sorts |-> 2]
MCIndexes  == -3..2
=============================================================================
