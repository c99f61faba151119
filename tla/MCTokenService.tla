--------------------------- MODULE MCTokenService ---------------------------
(* Small instances of TokenService for TLC. *)
EXTENDS TokenService, TLC

CONSTANTS alice, bob, t1, t2, j1, j2

\* Token values are random, subscribers alike and jobs scheduling slots.
Symmetric == Permutations(Sub) \cup Permutations(Token) \cup Permutations(Job)
=============================================================================
