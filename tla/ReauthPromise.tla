--------------------------- MODULE ReauthPromise ---------------------------
(***************************************************************************)
(* What fast re-authentication promises, without sessions, requests,       *)
(* retransmissions or faults: a device that may use an identity is offered *)
(* one successor per challenge, and only its answer to that challenge      *)
(* makes the successor usable and has it handed out.  An identity's depth  *)
(* counts the rotations since full authentication; it never reaches the    *)
(* end of the counter's range unnoticed.  That an identity has one         *)
(* successor at most is not promised: module Reauth shows it may have more.*)
(***************************************************************************)
EXTENDS Naturals

CONSTANTS ReauthId, None, MaxCounter

VARIABLES
    lineage,    \* lineage[i]: the root and depth of an identity, or None
    offered,    \* offers [from, to] of a successor made to devices
    proved,     \* identities whose offer the device has answered
    usable,     \* identities the server accepts
    delivered   \* identities handed out in a reply to a re-authentication

vars == <<lineage, offered, proved, usable, delivered>>

Init ==
    /\ lineage = [i \in ReauthId |-> None]
    /\ offered = {}
    /\ proved = {}
    /\ usable = {}
    /\ delivered = {}

\* Full authentication issues the first identity of a lineage; one whose state cannot be
\* stored is lost.
Enrol(i) ==
    /\ lineage[i] = None
    /\ lineage' = [lineage EXCEPT ![i] = [root |-> i, depth |-> 1]]
    /\ \/ usable' = usable \cup {i}
       \/ UNCHANGED usable
    /\ UNCHANGED <<offered, proved, delivered>>

\* A fresh successor of i is generated; the challenge that offers it may get lost.
Offer(i, j) ==
    /\ lineage[i] # None /\ lineage[j] = None
    /\ lineage[i].depth < MaxCounter
    /\ lineage' = [lineage EXCEPT ![j] = [root  |-> lineage[i].root,
                                          depth |-> lineage[i].depth + 1]]
    /\ \/ offered' = offered \cup {[from |-> i, to |-> j]}
       \/ UNCHANGED offered
    /\ UNCHANGED <<proved, usable, delivered>>

\* The device answers the challenge that offers j.
Prove(j) ==
    /\ \E o \in offered : o.to = j
    /\ proved' = proved \cup {j}
    /\ UNCHANGED <<lineage, offered, usable, delivered>>

Activate(j) ==
    /\ j \in proved
    /\ usable' = usable \cup {j}
    /\ UNCHANGED <<lineage, offered, proved, delivered>>

\* An identity is rotated away, given up, or expires.
Retire(i) ==
    /\ usable' = usable \ {i}
    /\ UNCHANGED <<lineage, offered, proved, delivered>>

Deliver(j) ==
    /\ j \in proved
    /\ delivered' = delivered \cup {j}
    /\ UNCHANGED <<lineage, offered, proved, usable>>

Next ==
    \/ \E i \in ReauthId : Enrol(i) \/ Prove(i) \/ Activate(i) \/ Retire(i) \/ Deliver(i)
    \/ \E i, j \in ReauthId : Offer(i, j)

Spec == Init /\ [][Next]_vars
=============================================================================
