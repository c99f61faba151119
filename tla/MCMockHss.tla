----------------------------- MODULE MCMockHss -----------------------------
(* Small instances of MockHss for TLC. *)
EXTENDS MockHss, TLC

CONSTANTS alice, bob, stranger, uuid1, uuid2, rand1, rand2, rand3, rand4, j1, j2

\* The id of each subscriber's row.
MCIdOf == alice :> uuid1 @@ bob :> uuid2

\* RANDs are random and jobs are scheduling slots.
Symmetric == Permutations(Rand) \cup Permutations(Job)
=============================================================================
