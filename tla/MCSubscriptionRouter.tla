------------------------ MODULE MCSubscriptionRouter ------------------------
(* The router under arbitrary call sequences, for TLC.                     *)
EXTENDS RouterLibrary

CONSTANTS s1, s2, q1, q2

MCIds     == {s1, s2}
MCQueries == {q1, q2}
=============================================================================
