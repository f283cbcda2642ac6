----------------------------- MODULE MCJwksCache -----------------------------
(* Small instances of JwksCache. *)
EXTENDS JwksCache

CONSTANTS k1, k2

MCRequests == 1 .. 3
TwoRequests == 1 .. 2
MCKids == {k1, k2}

\* A rotation: k2 is published from one moment on, k1 until a later one.
Rotation(first, last) ==
    [t \in Times |-> {k \in MCKids : (k = k1 /\ t < last) \/ (k = k2 /\ t >= first)}]

MCHistories == {Rotation(1, 2)}
=============================================================================
