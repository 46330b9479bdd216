------------------------------- MODULE MCPool -------------------------------
(***************************************************************************)
(* Pool, for TLC.                                                          *)
(***************************************************************************)
EXTENDS Pool

CONSTANTS a, b, p1, p2, p3, p4, p5
MCCallers == {a, b}
MCPools   == {p1, p2, p3, p4, p5}

\* gram_share gives at least one thread and never more than the pool, and the
\* tasks together at most two pools' worth, on every small pair.
ASSUME GramShareSmall ==
  \A tasks \in 0 .. 9, pool \in 1 .. 9 :
    LET share == GramShare(tasks, pool)
    IN share \in 1 .. pool /\ (share > 1 => tasks * share <= 2 * pool)
=============================================================================
