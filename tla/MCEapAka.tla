------------------------------ MODULE MCEapAka ------------------------------
(* Small instances of EapAka for TLC. *)
EXTENDS EapAka, TLC

CONSTANTS i1, i2, s1, s2, v1, v2, v3, id1, id2, r1, r2

\* Sessions, vectors, identities and goroutines are interchangeable: each is a
\* fresh random value or a scheduling slot, and nothing distinguishes two of them.
Symmetric ==
    Permutations(Session) \cup Permutations(Vec) \cup Permutations(ReauthId)
        \cup Permutations(Req)
=============================================================================
