---------------------------- MODULE TokenPromise ----------------------------
(***************************************************************************)
(* What a temporary token promises, without requests, caches or faults: it *)
(* is issued once, to one subscriber and for at most TTL, what it was      *)
(* issued with never changes, and it opens a request of that subscriber at *)
(* any time up to its deadline and never after.                            *)
(***************************************************************************)
EXTENDS Naturals

CONSTANTS Sub, Token, TTL, Unissued

VARIABLES
    clock,
    issued,    \* issued[t]: the subscriber and the deadline of t, or Unissued
    serving    \* which token has opened a request, for whom

vars == <<clock, issued, serving>>

Init ==
    /\ clock = 0
    /\ issued = [t \in Token |-> Unissued]
    /\ serving = {}

\* A token is issued; it may be so late that its time has passed.
Issue(t, sub) ==
    /\ issued[t] = Unissued
    /\ \E e \in 0 .. clock + TTL :
         issued' = [issued EXCEPT ![t] = [sub |-> sub, expires |-> e]]
    /\ UNCHANGED <<clock, serving>>

\* A request with t is accepted.
Accept(t) ==
    /\ issued[t] # Unissued
    /\ clock <= issued[t].expires
    /\ serving' = serving \cup {[token |-> t, sub |-> issued[t].sub]}
    /\ UNCHANGED <<clock, issued>>

\* Requests end.
Release ==
    /\ serving' \subseteq serving
    /\ UNCHANGED <<clock, issued>>

Pass ==
    /\ clock' = clock + 1
    /\ UNCHANGED <<issued, serving>>

Next ==
    \/ \E t \in Token, sub \in Sub : Issue(t, sub)
    \/ \E t \in Token : Accept(t)
    \/ Release \/ Pass

Spec == Init /\ [][Next]_vars
=============================================================================
