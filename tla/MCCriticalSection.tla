------------------------- MODULE MCCriticalSection -------------------------
(* Small instances of CriticalSection for TLC. *)
EXTENDS CriticalSection

CONSTANTS a, b, heap

\* One section.
NoNesting == {}

\* csGrab-like and cs_timer_change-like sections a and b, b inside a, and a
\* heap's section inside either, as an Allocate under a lock takes it.
Nested == {<<a, b>>, <<a, heap>>, <<b, heap>>}
=============================================================================
