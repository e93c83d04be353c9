---------------------------- MODULE MCNetClient ----------------------------
(* Small instances of NetClient for TLC. *)
EXTENDS NetClient

CONSTANTS x, y, a, b, l, e

\* The clients of the initial lists.
MCx == <<x>>
MCy == <<y>>
=============================================================================
