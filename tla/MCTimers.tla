------------------------------ MODULE MCTimers ------------------------------
(* Small instances of Timers for TLC. *)
EXTENDS Timers, TLC

CONSTANTS t1, t2, t3

NoTimers   == <<>>
OneTimer   == <<t1>>
TwoTimers  == <<t1, t2>>

\* The timers that are not in the list from the beginning are interchangeable.
TimerSymmetry == Permutations(Timers \ ToSet(Resident))
=============================================================================
