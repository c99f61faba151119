------------------------------ MODULE MCReauth ------------------------------
(* Small instances of Reauth for TLC. *)
EXTENDS Reauth, TLC

CONSTANTS id1, id2, id3, id4, s1, s2, s3, r1, r2

\* Identities, sessions and goroutines are interchangeable: the first two are fresh
\* random values, the third are scheduling slots.
Symmetric == Permutations(ReauthId) \cup Permutations(Session) \cup Permutations(Req)
=============================================================================
