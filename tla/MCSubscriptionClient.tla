------------------------ MODULE MCSubscriptionClient ------------------------
(* Two subscriptions, one or two queries, a few events, for TLC.           *)
EXTENDS SubscriptionClient

CONSTANTS s1, s2, q1, q2

MCIds     == {s1, s2}
MCQueries == {q1, q2}
MCSymmetry == Permutations(MCIds)
=============================================================================
